---- MODULE Spec2Model ----
(***************************************************************************)
(* The A2A adapter of warden-protocol/agent-kit (server.ts and types.ts):  *)
(* the in-memory task store, the JSON-RPC handlers message/send,           *)
(* message/stream, tasks/get, tasks/list, tasks/cancel and                 *)
(* tasks/resubscribe, and the SSE frames they write; and the LangGraph     *)
(* adapter (langgraph/server.ts): threads, thread states and runs.  One    *)
(* action is one synchronous run of handler code between two suspension    *)
(* points (an await on the user handler).                                  *)
(***************************************************************************)
EXTENDS Integers, Sequences, FiniteSets, TLC

\* ---------------------------------------------------------------- bounds
\* number of message/send and message/stream requests and LangGraph runs
\* served
MaxRequests == 1
\* task ids a client may name in tasks/cancel and tasks/resubscribe
MaxTasks == 2
\* number of updates the user handlers yield, over all requests
MaxYields == 2
\* number of tasks/resubscribe requests
MaxSubs == 1
\* last value of the wall clock
MaxTime == 1
\* largest pageSize of a tasks/list request
MaxPageSize == 2
\* number of message/send and message/stream requests served when several
\* tasks are stored
MaxStored == 3
\* number of threads POST /threads creates
MaxThreadCreates == 2
\* run ids a client may name in GET /threads/:id/runs/:run_id
MaxRunIds == 1

\* run requests the LangGraph adapter serves when it is looked at alone
MaxRuns == 2

\* pieces of a request path after its leading slash
MaxPieces == 3

\* elements of a run input's messages array
MaxMessages == 2

\* parts of a message that is converted to its wire form and back
MaxParts == 2

\* number of message/stream requests when several are in flight at once
MaxStreams == 2

\* number of tasks/resubscribe streams when several listen to one task
MaxListeners == 3

\* largest timeout and pollInterval given to waitForTask, in clock ticks
MaxTimeout == 3
MaxPollInterval == 2

\* ----------------------------------------------------------- types.ts
TaskStates ==
  {"submitted", "working", "input_required", "completed", "failed",
   "cancelled", "rejected", "auth_required"}

TERMINAL_TASK_STATES == {"completed", "failed", "cancelled", "rejected"}

VALID_TASK_TRANSITIONS ==
  [submitted |-> {"working", "cancelled", "rejected"},
   working |-> {"completed", "failed", "cancelled", "input_required"},
   input_required |-> {"working", "cancelled"},
   auth_required |-> {"working", "cancelled"}]

canTransitionTask(from, to) ==
  IF from \in DOMAIN VALID_TASK_TRANSITIONS
  THEN to \in VALID_TASK_TRANSITIONS[from]
  ELSE FALSE

PARSE_ERROR == -32700
METHOD_NOT_FOUND == -32601
INVALID_PARAMS == -32602
INTERNAL_ERROR == -32603
TASK_NOT_FOUND == -32001

\* ------------------------------------------------------------- values
\* an absent contextId
None == <<>>

\* an absent message (message?: Message)
NoMessage == [role |-> "none", task |-> 0, seq |-> 0, contextId |-> None]

\* an absent result
NoResult ==
  [kind |-> "none", id |-> 0, contextId |-> None, state |-> "none",
   timestamp |-> 0, history |-> <<>>]

\* contextIds a client may put on its message; None is "no contextId"
ClientContexts == {None, <<"ctx", 1>>}

\* crypto.randomUUID() as called for the n-th task
randomUUID(n) == <<"uuid", n>>

\* const pageSize = params.pageSize || 10
DefaultPageSize == 10

\* params.status of tasks/list: absent, one state, or an array of states
ListStatuses ==
  {[given |-> FALSE, states |-> {}],
   [given |-> TRUE, states |-> {"completed"}],
   [given |-> TRUE, states |-> {"submitted", "working"}]}

\* params.pageSize of tasks/list; 0 also stands for an absent pageSize
PageSizes == 0..MaxPageSize

\* the message of a message/send or message/stream request that creates task t
RequestMessage(t, ctx) ==
  [role |-> "user", task |-> t, seq |-> 0, contextId |-> ctx]

\* the message the handler of task t attaches to its k-th update
AgentMessage(t, k) ==
  [role |-> "agent", task |-> t, seq |-> k, contextId |-> None]

\* what a handler generator may yield as its k-th event for task t:
\* a status update with any state, with or without a message, or an artifact
\* update.  taskId is the one the handler wrote ("pending" under
\* wrapTaskHandler); the adapter overwrites it.
StatusEvents(t, k) ==
  [type : {"task_status_update"}, taskId : {"pending"}, state : TaskStates,
   message : {NoMessage, AgentMessage(t, k)}]

ArtifactEvents(t, k) ==
  [type : {"task_artifact_update"}, taskId : {"pending"}, state : {"none"},
   message : {NoMessage}]

HandlerEvents(t, k) == StatusEvents(t, k) \cup ArtifactEvents(t, k)

\* ------------------------------------------------------------ variables
VARIABLES
  tasks,        \* store.tasks: task id -> Task
  taskCounter,  \* store.taskCounter
  subs,         \* tasks/resubscribe streams and their store.subscribers entry
  req,          \* task id -> the request that created the task
  handlerKind,  \* config.handleMessage returns a generator or a promise
  resp,         \* the JSON-RPC response the last step wrote with res.end(JSON)
  nYields,      \* updates yielded so far by all handlers
  now,          \* new Date()
  threads,      \* LangGraph store.threads: thread id -> thread
  threadStates, \* LangGraph store.threadStates: thread id -> state object
  heap,         \* the state objects: object -> its values.messages array
  runs,         \* LangGraph store.runs: run id -> run
  lg,           \* the LangGraph run requests and their position
  http,         \* the HTTP response the last LangGraph step wrote
  call,         \* a function of the library applied to an input, its result
  client        \* WardenA2AClient.waitForTask: its position and its clock

\* the A2A adapter's store and requests, and the LangGraph adapter's
a2aStore == <<tasks, taskCounter, subs, req, handlerKind, nYields, now>>

lgStore == <<threads, threadStates, heap, runs, lg>>

\* what the servers' handlers never touch
libVars == <<call, client>>

vars == <<tasks, taskCounter, subs, req, handlerKind, resp, nYields, now,
          threads, threadStates, heap, runs, lg, http, call, client>>

TaskIds == 1..MaxTasks

\* ------------------------------------------------------ wire conversion
\* mutant of createA2AStatusEvent: isFinal is not passed on
createA2AStatusEvent_NeverFinal(taskId, state, contextId, message, isFinal) ==
  [kind |-> "status-update",
   task_id |-> taskId,
   context_id |-> IF contextId = None THEN <<"task", taskId>> ELSE contextId,
   state |-> state,
   message |-> message,
   final |-> FALSE]

\* createA2AStatusEvent(taskId, state, contextId, message, isFinal = false);
\* status.timestamp is left out of the frame
createA2AStatusEvent(taskId, state, contextId, message, isFinal) ==
  [kind |-> "status-update",
   task_id |-> taskId,
   context_id |-> IF contextId = None THEN <<"task", taskId>> ELSE contextId,
   state |-> state,
   message |-> message,
   final |-> isFinal]

\* { ...event, taskId: task.id }: a non-status event is written as it is, in
\* its internal form (type task_artifact_update)
ArtifactFrame(taskId) ==
  [kind |-> "task_artifact_update", task_id |-> taskId, context_id |-> None,
   state |-> "none", message |-> NoMessage, final |-> FALSE]

\* mutant of terminalStatesIncludes: rejected is missing from the list
terminalStatesIncludes_NoRejected(state) ==
  state \in {"completed", "failed", "cancelled"}

\* const terminalStates = [...]; terminalStates.includes(state)
terminalStatesIncludes(state) ==
  state \in {"completed", "failed", "cancelled", "rejected"}

\* mutant of taskToA2AFormat: the history holds the first message only
taskToA2AFormat_TriggerOnly(task) ==
  [kind |-> "task",
   id |-> task.id,
   contextId |-> IF task.contextId = None THEN <<"task", task.id>>
                 ELSE task.contextId,
   state |-> task.state,
   timestamp |-> task.updatedAt,
   history |-> <<task.messages[1]>>]

\* taskToA2AFormat(task)
taskToA2AFormat(task) ==
  [kind |-> "task",
   id |-> task.id,
   contextId |-> IF task.contextId = None THEN <<"task", task.id>>
                 ELSE task.contextId,
   state |-> task.state,
   timestamp |-> task.updatedAt,
   history |-> task.messages]

createJsonRpcSuccess(method, result) ==
  [method |-> method, ok |-> TRUE, code |-> 0, message |-> "", result |-> result]

createJsonRpcError(method, code, message) ==
  [method |-> method, ok |-> FALSE, code |-> code, message |-> message,
   result |-> NoResult]

NoResponse == createJsonRpcError("none", 0, "")

\* sendJson(res, data, status) and sendError(res, message, status) of the
\* LangGraph adapter: the status line and what the body holds
sendJson(status, thread, messages, run) ==
  [status |-> status, error |-> "", thread |-> thread, messages |-> messages,
   run |-> run]

sendError(message, status) ==
  [status |-> status, error |-> message, thread |-> None, messages |-> <<>>,
   run |-> "none"]

NoHttp == sendError("", 0)

\* ---------------------------------------------------------- task store
\* Map.set(key, value) on a Map held as a function
MapSet(map, key, value) ==
  [k \in (DOMAIN map) \cup {key} |-> IF k = key THEN value ELSE map[k]]

\* Map.delete(key)
MapDelete(map, key) == [k \in (DOMAIN map) \ {key} |-> map[k]]

\* mutant of createTask: the contextId is copied without the fallback to a
\* generated one
createTask_NoContextFallback(counter, message, time) ==
  [id |-> counter + 1,
   state |-> "submitted",
   contextId |-> message.contextId,
   messages |-> <<message>>,
   createdAt |-> time,
   updatedAt |-> time]

\* mutant of createTask: the id is taken before the counter is incremented
createTask_PostIncrement(counter, message, time) ==
  [id |-> counter,
   state |-> "submitted",
   contextId |-> IF message.contextId = None THEN randomUUID(counter + 1)
                 ELSE message.contextId,
   messages |-> <<message>>,
   createdAt |-> time,
   updatedAt |-> time]

\* createTask(store, message): the new Task; its id is ++store.taskCounter
createTask(counter, message, time) ==
  [id |-> counter + 1,
   state |-> "submitted",
   contextId |-> IF message.contextId = None THEN randomUUID(counter + 1)
                 ELSE message.contextId,
   messages |-> <<message>>,
   createdAt |-> time,
   updatedAt |-> time]

\* mutant of updateTaskState: the message replaces the history
updateTaskState_Replace(store, taskId, state, message, time) ==
  IF taskId \notin DOMAIN store THEN store
  ELSE [store EXCEPT ![taskId] =
          [@ EXCEPT !.state = state,
                    !.updatedAt = time,
                    !.messages = IF message = NoMessage THEN @
                                 ELSE <<message>>]]

\* mutant of updateTaskState: the message is put in front of the history
updateTaskState_Prepend(store, taskId, state, message, time) ==
  IF taskId \notin DOMAIN store THEN store
  ELSE [store EXCEPT ![taskId] =
          [@ EXCEPT !.state = state,
                    !.updatedAt = time,
                    !.messages = IF message = NoMessage THEN @
                                 ELSE <<message>> \o @]]

\* updateTaskState(store, taskId, state, message?): the store's tasks after it
updateTaskState(store, taskId, state, message, time) ==
  IF taskId \notin DOMAIN store THEN store
  ELSE [store EXCEPT ![taskId] =
          [@ EXCEPT !.state = state,
                    !.updatedAt = time,
                    !.messages = IF message = NoMessage THEN @
                                 ELSE Append(@, message)]]

\* the disposer addSubscriber returns for subscriber s:
\* store.subscribers.get(taskId)?.delete(callback)
unsubscribe(ss, s) == [ss EXCEPT ![s].registered = FALSE]

\* the callback tasks/resubscribe registers for subscriber s, run on the
\* subscribers ss: it writes the frame and, on a terminal state, ends the
\* stream and calls its own disposer
SubscriberCallback(ss, s, event) ==
  IF event.type = "task_status_update"
  THEN LET isTerminal == terminalStatesIncludes(event.state)
           written ==
             [ss EXCEPT
                ![s].frames = Append(@, createA2AStatusEvent(ss[s].task,
                                 event.state, ss[s].contextId, event.message,
                                 isTerminal))]
       IN IF isTerminal
          THEN unsubscribe([written EXCEPT ![s].open = FALSE], s)
          ELSE written
  ELSE [ss EXCEPT ![s].frames = Append(@, ArtifactFrame(event.taskId))]

\* the subscribers registered for taskId, in the order they were added
members(ss, taskId) ==
  SelectSeq([i \in 1..Len(ss) |-> i],
            LAMBDA i : ss[i].registered /\ ss[i].task = taskId)

\* mutant of notifySubscribers: the callbacks are kept in an array that is
\* walked by index while a callback removes itself from it
RECURSIVE indexLoop(_, _, _, _)
indexLoop(ss, taskId, event, p) ==
  IF p > Len(members(ss, taskId)) THEN ss
  ELSE indexLoop(SubscriberCallback(ss, members(ss, taskId)[p], event),
                 taskId, event, p + 1)

notifySubscribers_IndexLoop(ss, taskId, event) ==
  indexLoop(ss, taskId, event, 1)

\* mutant of notifySubscribers: the subscriber set is not found, nothing runs
notifySubscribers_Skips(ss, taskId, event) == ss

\* for (const callback of subscribers) callback(event): the Set is walked in
\* insertion order from its i-th entry on, and an entry is visited when it is
\* still in the Set at the time the walk comes to it
RECURSIVE forOf(_, _, _, _)
forOf(ss, taskId, event, i) ==
  IF i > Len(ss) THEN ss
  ELSE forOf(IF ss[i].registered /\ ss[i].task = taskId
             THEN SubscriberCallback(ss, i, event)
             ELSE ss,
             taskId, event, i + 1)

\* notifySubscribers(store, taskId, event): the callbacks registered for
\* taskId run
notifySubscribers(ss, taskId, event) == forOf(ss, taskId, event, 1)

\* the shape of the state: store.tasks is keyed task-1 .. task-<taskCounter>,
\* every request created exactly one task, every subscriber names a stored task
TypeOK ==
  /\ taskCounter \in 0..MaxRequests
  /\ DOMAIN tasks = 1..taskCounter
  /\ DOMAIN req = 1..taskCounter
  /\ \A t \in DOMAIN tasks :
       /\ tasks[t].id = t
       /\ tasks[t].state \in TaskStates
       /\ Len(tasks[t].messages) >= 1
       /\ tasks[t].createdAt \in 0..MaxTime
       /\ tasks[t].updatedAt \in 0..MaxTime
       /\ req[t].method \in {"send", "stream"}
       /\ req[t].pc \in {"running", "done"}
       /\ req[t].open = (req[t].pc = "running")
  /\ DOMAIN subs = 1..Len(subs)
  /\ Len(subs) <= MaxSubs
  /\ \A s \in DOMAIN subs :
       /\ subs[s].task \in DOMAIN tasks
       /\ subs[s].registered => subs[s].open
  /\ handlerKind \in {"generator", "promise"}
  /\ nYields \in 0..MaxYields
  /\ now \in 0..MaxTime

\* ------------------------------------------------------------- initial
\* both servers as their constructors leave them
Constructed ==
  /\ tasks = <<>>
  /\ taskCounter = 0
  /\ subs = <<>>
  /\ req = <<>>
  /\ handlerKind \in {"generator", "promise"}
  /\ resp = NoResponse
  /\ nYields = 0
  /\ now = 0
  /\ threads = <<>>
  /\ threadStates = <<>>
  /\ heap = <<>>
  /\ runs = <<>>
  /\ lg = <<>>
  /\ http = NoHttp

\* no library function has been called and no client is waiting
NoCall == [fn |-> "none", input |-> <<>>, output |-> <<>>]

NoClient == [pc |-> "idle"]

Init ==
  /\ Constructed
  /\ call = NoCall
  /\ client = NoClient

\* the clock advances between two synchronous runs of handler code
Tick ==
  /\ now < MaxTime
  /\ now' = now + 1
  /\ UNCHANGED <<tasks, taskCounter, subs, req, handlerKind, resp, nYields>>
  /\ UNCHANGED <<lgStore, http, libVars>>

\* a task id as the handler reads it: the text `task-${n}` of createTask is
\* the pair <<"task", n>>, and a literal id stands with the number 0
TaskIdText(n) == <<"task", n>>

\* the handler was given as config.handleMessage: it is called with the
\* message alone and gets no context
NoContext ==
  [task |-> [id |-> <<"none", 0>>, state |-> "none", contextId |-> None,
             messages |-> <<>>, createdAt |-> 0, updatedAt |-> 0],
   message |-> NoMessage]

\* wrapTaskHandler(handler)(message): the context { task: placeholderTask,
\* message } the TaskHandler given as config.handler is called with
wrapTaskHandler(message, time) ==
  [task |-> [id |-> <<"pending", 0>>, state |-> "submitted",
             contextId |-> message.contextId, messages |-> <<message>>,
             createdAt |-> time, updatedAt |-> time],
   message |-> message]

\* the request record of a running request: config.handleMessage(message)
\* has been called `calls` times for it, with `context` when it wraps a
\* TaskHandler (an async generator)
NewRequest(method, frames, pc, message) ==
  [method |-> method, pc |-> pc, frames |-> frames, open |-> TRUE,
   n |-> 0, calls |-> 1,
   context |-> IF handlerKind = "generator" THEN wrapTaskHandler(message, now)
               ELSE NoContext]

\* handleSendMessage: from its entry to the first await on the handler, while
\* fewer than `limit` requests have been served
SendMessage(limit, ctx) ==
  /\ taskCounter + Len(lg) < limit
  /\ LET task == createTask(taskCounter, RequestMessage(taskCounter + 1, ctx), now)
     IN /\ tasks' = MapSet(tasks, task.id, task)
        /\ taskCounter' = taskCounter + 1
        /\ req' = MapSet(req, task.id, NewRequest("send", <<>>, "running",
                                        task.messages[1]))
  /\ resp' = NoResponse
  /\ UNCHANGED <<subs, handlerKind, nYields, now>>
  /\ http' = NoHttp
  /\ UNCHANGED <<lgStore, libVars>>

handleSendMessage(ctx) == SendMessage(MaxRequests, ctx)

\* handleSendStreamingMessage: from its entry to the first await on the
\* handler, while fewer than `limit` requests have been served
SendStreamingMessage(limit, ctx) ==
  /\ taskCounter + Len(lg) < limit
  /\ LET task == createTask(taskCounter, RequestMessage(taskCounter + 1, ctx), now)
         first == createA2AStatusEvent(task.id, "submitted", task.contextId,
                                       NoMessage, FALSE)
         working == createA2AStatusEvent(task.id, "working", task.contextId,
                                         NoMessage, FALSE)
     IN /\ taskCounter' = taskCounter + 1
        /\ IF handlerKind = "generator"
           THEN /\ tasks' = MapSet(tasks, task.id, task)
                /\ req' = MapSet(req, task.id,
                                 NewRequest("stream", <<first>>, "running",
                                            task.messages[1]))
           ELSE /\ tasks' = updateTaskState(MapSet(tasks, task.id, task),
                                            task.id, "working", NoMessage, now)
                /\ req' = MapSet(req, task.id,
                                 NewRequest("stream", <<first, working>>,
                                            "running", task.messages[1]))
  /\ resp' = NoResponse
  /\ UNCHANGED <<subs, handlerKind, nYields, now>>
  /\ http' = NoHttp
  /\ UNCHANGED <<lgStore, libVars>>

handleSendStreamingMessage(ctx) == SendStreamingMessage(MaxRequests, ctx)

\* mutant of HandlerYields: the task is the one the server created last
HandlerYields_LatestTask(t, event) ==
  /\ t \in DOMAIN req
  /\ handlerKind = "generator"
  /\ req[t].pc = "running"
  /\ nYields < MaxYields
  /\ event \in HandlerEvents(t, req[t].n + 1)
  /\ LET task == taskCounter
         own == [event EXCEPT !.taskId = task]
         isFinal == terminalStatesIncludes(event.state)
         frame == IF event.type = "task_status_update"
                  THEN createA2AStatusEvent(task, event.state,
                                            tasks[task].contextId,
                                            event.message, isFinal)
                  ELSE ArtifactFrame(task)
     IN /\ tasks' = IF event.type = "task_status_update"
                    THEN updateTaskState(tasks, task, event.state,
                                         event.message, now)
                    ELSE tasks
        /\ req' = [req EXCEPT ![t].n = @ + 1,
                              ![t].frames = IF req[t].method = "stream"
                                            THEN Append(@, frame) ELSE @]
        /\ subs' = notifySubscribers(subs, task, own)
  /\ nYields' = nYields + 1
  /\ resp' = NoResponse
  /\ UNCHANGED <<taskCounter, handlerKind, now>>
  /\ http' = NoHttp
  /\ UNCHANGED <<lgStore, libVars>>

\* the body of `for await (const event of result)` for one yielded event
HandlerYields(t, event) ==
  /\ t \in DOMAIN req
  /\ handlerKind = "generator"
  /\ req[t].pc = "running"
  /\ nYields < MaxYields
  /\ event \in HandlerEvents(t, req[t].n + 1)
  /\ LET own == [event EXCEPT !.taskId = t]
         isFinal == terminalStatesIncludes(event.state)
         frame == IF event.type = "task_status_update"
                  THEN createA2AStatusEvent(t, event.state, tasks[t].contextId,
                                            event.message, isFinal)
                  ELSE ArtifactFrame(t)
     IN /\ tasks' = IF event.type = "task_status_update"
                    THEN updateTaskState(tasks, t, event.state, event.message, now)
                    ELSE tasks
        /\ req' = [req EXCEPT ![t].n = @ + 1,
                              ![t].frames = IF req[t].method = "stream"
                                            THEN Append(@, frame) ELSE @]
        /\ subs' = notifySubscribers(subs, t, own)
  /\ nYields' = nYields + 1
  /\ resp' = NoResponse
  /\ UNCHANGED <<taskCounter, handlerKind, now>>
  /\ http' = NoHttp
  /\ UNCHANGED <<lgStore, libVars>>

\* the generator is exhausted: the loop ends and the request is answered
HandlerReturns(t) ==
  /\ t \in DOMAIN req
  /\ handlerKind = "generator"
  /\ req[t].pc = "running"
  /\ req' = [req EXCEPT ![t].pc = "done", ![t].open = FALSE]
  /\ resp' = IF req[t].method = "send"
             THEN createJsonRpcSuccess("message/send", taskToA2AFormat(tasks[t]))
             ELSE NoResponse
  /\ UNCHANGED <<tasks, taskCounter, subs, handlerKind, nYields, now>>
  /\ http' = NoHttp
  /\ UNCHANGED <<lgStore, libVars>>

\* the promise of a request/response handler resolves with its message
PromiseResolves(t) ==
  /\ t \in DOMAIN req
  /\ handlerKind = "promise"
  /\ req[t].pc = "running"
  /\ LET responseMessage == AgentMessage(t, 1)
         after == updateTaskState(tasks, t, "completed", responseMessage, now)
         frame == createA2AStatusEvent(t, "completed", tasks[t].contextId,
                                       responseMessage, TRUE)
     IN /\ tasks' = after
        /\ req' = [req EXCEPT
                     ![t].pc = "done",
                     ![t].open = FALSE,
                     ![t].frames = IF req[t].method = "stream"
                                   THEN Append(@, frame) ELSE @]
        /\ resp' = IF req[t].method = "send"
                   THEN createJsonRpcSuccess("message/send",
                                             taskToA2AFormat(after[t]))
                   ELSE NoResponse
  /\ UNCHANGED <<taskCounter, subs, handlerKind, nYields, now>>
  /\ http' = NoHttp
  /\ UNCHANGED <<lgStore, libVars>>

\* the handler throws (the generator's next() or the promise rejects):
\* message/send leaves it to the catch of handleJsonRpc, message/stream to
\* its own catch
HandlerThrows(t) ==
  /\ t \in DOMAIN req
  /\ req[t].pc = "running"
  /\ IF req[t].method = "send"
     THEN /\ req' = [req EXCEPT ![t].pc = "done", ![t].open = FALSE]
          /\ resp' = createJsonRpcError("message/send", INTERNAL_ERROR,
                                        "handler error")
          /\ tasks' = tasks
     ELSE /\ req' = [req EXCEPT
                       ![t].pc = "done",
                       ![t].open = FALSE,
                       ![t].frames = Append(@,
                          createA2AStatusEvent(t, "failed", tasks[t].contextId,
                                               NoMessage, TRUE))]
          /\ resp' = NoResponse
          /\ tasks' = updateTaskState(tasks, t, "failed", NoMessage, now)
  /\ UNCHANGED <<taskCounter, subs, handlerKind, nYields, now>>
  /\ http' = NoHttp
  /\ UNCHANGED <<lgStore, libVars>>

\* mutant of handleGetTask: a missing task is answered as invalid parameters
handleGetTask_InvalidParams(taskId) ==
  /\ resp' = IF taskId \notin DOMAIN tasks
             THEN createJsonRpcError("tasks/get", INVALID_PARAMS,
                                     "Task not found")
             ELSE createJsonRpcSuccess("tasks/get", taskToA2AFormat(tasks[taskId]))
  /\ UNCHANGED <<tasks, taskCounter, subs, req, handlerKind, nYields, now>>
  /\ http' = NoHttp
  /\ UNCHANGED <<lgStore, libVars>>

\* handleGetTask, a synchronous handler
handleGetTask(taskId) ==
  /\ resp' = IF taskId \notin DOMAIN tasks
             THEN createJsonRpcError("tasks/get", TASK_NOT_FOUND,
                                     "Task not found")
             ELSE createJsonRpcSuccess("tasks/get", taskToA2AFormat(tasks[taskId]))
  /\ UNCHANGED <<tasks, taskCounter, subs, req, handlerKind, nYields, now>>
  /\ http' = NoHttp
  /\ UNCHANGED <<lgStore, libVars>>

\* Array.from(store.tasks.values()): the tasks in insertion order, which is
\* the order of their ids task-1, task-2, ...
tasksValues(store) == [i \in 1..Cardinality(DOMAIN store) |-> store[i]]

\* tasks.slice(0, n) for n >= 0
Slice(seq, n) == SubSeq(seq, 1, IF n < Len(seq) THEN n ELSE Len(seq))

\* mutant of ListedTasks: the page is cut before the filters are applied
ListedTasks_SliceFirst(store, contextId, status, pageSize) ==
  LET inContext(t) == contextId = None \/ t.contextId = contextId
      inStatus(t) == ~status.given \/ t.state \in status.states
      size == IF pageSize = 0 THEN DefaultPageSize ELSE pageSize
  IN SelectSeq(SelectSeq(Slice(tasksValues(store), size), inContext), inStatus)

\* the tasks a tasks/list request answers; contextId None and pageSize 0 are
\* falsy parameters, status.given says whether params.status is there
ListedTasks(store, contextId, status, pageSize) ==
  LET inContext(t) == contextId = None \/ t.contextId = contextId
      inStatus(t) == ~status.given \/ t.state \in status.states
      size == IF pageSize = 0 THEN DefaultPageSize ELSE pageSize
  IN Slice(SelectSeq(SelectSeq(tasksValues(store), inContext), inStatus), size)

\* handleListTasks, a synchronous handler
handleListTasks(contextId, status, pageSize) ==
  /\ LET listed == ListedTasks(tasks, contextId, status, pageSize)
     IN resp' = createJsonRpcSuccess("tasks/list",
                  [kind |-> "task-list",
                   tasks |-> [i \in 1..Len(listed) |-> taskToA2AFormat(listed[i])]])
  /\ UNCHANGED <<tasks, taskCounter, subs, req, handlerKind, nYields, now>>
  /\ http' = NoHttp
  /\ UNCHANGED <<lgStore, libVars>>

\* handleCancelTask, a synchronous handler
handleCancelTask(taskId) ==
  /\ IF taskId \notin DOMAIN tasks
     THEN /\ resp' = createJsonRpcError("tasks/cancel", TASK_NOT_FOUND,
                                        "Task not found")
          /\ UNCHANGED <<tasks, subs>>
     ELSE LET after == updateTaskState(tasks, taskId, "cancelled", NoMessage, now)
              cancelEvent == [type |-> "task_status_update", taskId |-> taskId,
                              state |-> "cancelled", message |-> NoMessage]
          IN /\ tasks' = after
             /\ subs' = notifySubscribers(subs, taskId, cancelEvent)
             /\ resp' = createJsonRpcSuccess("tasks/cancel",
                                             taskToA2AFormat(after[taskId]))
  /\ UNCHANGED <<taskCounter, req, handlerKind, nYields, now>>
  /\ http' = NoHttp
  /\ UNCHANGED <<lgStore, libVars>>

\* mutant of handleSubscribeToTask: the early return for a terminal task is
\* missing, the stream stays open and the callback is registered
handleSubscribeToTask_NoEarlyReturn(taskId) ==
  /\ IF taskId \notin DOMAIN tasks
     THEN /\ resp' = createJsonRpcError("tasks/resubscribe", TASK_NOT_FOUND,
                                        "Task not found")
          /\ UNCHANGED subs
     ELSE LET task == tasks[taskId]
              isFinal == terminalStatesIncludes(task.state)
              frame == createA2AStatusEvent(taskId, task.state, task.contextId,
                                            NoMessage, isFinal)
          IN /\ Len(subs) < MaxSubs
             /\ subs' = Append(subs,
                          [task |-> taskId, contextId |-> task.contextId,
                           frames |-> <<frame>>, open |-> TRUE,
                           registered |-> TRUE, closed |-> FALSE])
             /\ resp' = NoResponse
  /\ UNCHANGED <<tasks, taskCounter, req, handlerKind, nYields, now>>
  /\ http' = NoHttp
  /\ UNCHANGED <<lgStore, libVars>>

\* handleSubscribeToTask, which has no await, while fewer than `limit`
\* tasks/resubscribe requests have been served
SubscribeToTask(limit, taskId) ==
  /\ IF taskId \notin DOMAIN tasks
     THEN /\ resp' = createJsonRpcError("tasks/resubscribe", TASK_NOT_FOUND,
                                        "Task not found")
          /\ UNCHANGED subs
     ELSE LET task == tasks[taskId]
              isFinal == terminalStatesIncludes(task.state)
              frame == createA2AStatusEvent(taskId, task.state, task.contextId,
                                            NoMessage, isFinal)
          IN /\ Len(subs) < limit
             /\ subs' = Append(subs,
                          [task |-> taskId, contextId |-> task.contextId,
                           frames |-> <<frame>>, open |-> ~isFinal,
                           registered |-> ~isFinal, closed |-> FALSE])
             /\ resp' = NoResponse
  /\ UNCHANGED <<tasks, taskCounter, req, handlerKind, nYields, now>>
  /\ http' = NoHttp
  /\ UNCHANGED <<lgStore, libVars>>

handleSubscribeToTask(taskId) == SubscribeToTask(MaxSubs, taskId)

\* mutant of ClientDisconnect: the disconnection also cancels the task
ClientDisconnect_CancelsTask(s) ==
  /\ s \in DOMAIN subs
  /\ subs[s].open
  /\ subs' = [unsubscribe(subs, s) EXCEPT ![s].open = FALSE,
                                          ![s].closed = TRUE]
  /\ tasks' = updateTaskState(tasks, subs[s].task, "cancelled", NoMessage, now)
  /\ resp' = NoResponse
  /\ UNCHANGED <<taskCounter, req, handlerKind, nYields, now>>
  /\ http' = NoHttp
  /\ UNCHANGED <<lgStore, libVars>>

\* res.on("close", () => unsubscribe()): the response of a tasks/resubscribe
\* stream that registered its callback is closed, once, because the client
\* went away or after the server ended the stream on a terminal state
ResClose(s) ==
  /\ s \in DOMAIN subs
  /\ ~subs[s].frames[1].final
  /\ ~subs[s].closed
  /\ subs' = [unsubscribe(subs, s) EXCEPT ![s].open = FALSE,
                                          ![s].closed = TRUE]
  /\ resp' = NoResponse
  /\ UNCHANGED <<tasks, taskCounter, req, handlerKind, nYields, now>>
  /\ http' = NoHttp
  /\ UNCHANGED <<lgStore, libVars>>

\* the client of an open tasks/resubscribe stream disconnects
ClientDisconnect(s) ==
  /\ s \in DOMAIN subs
  /\ subs[s].open
  /\ ResClose(s)

\* ------------------------------------------------------ LangGraph adapter
\* thread ids a client may put in a path or in the body of POST /threads
ClientThreads == ClientContexts \ {None}

\* a2aToLangGraphMessage(msg): human for the user's role, ai otherwise; the
\* text is identified by (task, seq) and the fresh id is left out
a2aToLangGraphMessage(msg) ==
  [type |-> IF msg.role = "user" THEN "human" ELSE "ai",
   content |-> <<msg.task, msg.seq>>]

\* what a TaskHandler may yield as the k-th update of run r
TaskYieldUpdates(r, k) ==
  [state : TaskStates, message : {NoMessage, AgentMessage(r, k)}]

\* what a handler's generator may throw: an Error with a message, or a value
\* that is no Error
Exceptions ==
  {[isError |-> TRUE, message |-> "handler failed"],
   [isError |-> FALSE, message |-> ""]}

\* the run's handler has thrown nothing
NoError == [isError |-> FALSE, message |-> "none"]

\* mutant of writeSSE: the frame is written without its data
writeSSE_EventOnly(event, thread, messages, message) ==
  [event |-> event, thread |-> None, messages |-> <<>>, message |-> ""]

\* writeSSE(res, event, data): data names a thread, holds messages or holds
\* an error message
writeSSE(event, thread, messages, message) ==
  [event |-> event, thread |-> thread, messages |-> messages,
   message |-> message]

\* the thread record POST /threads and createTemporaryThread store
NewThread(threadId, temporary) ==
  [thread_id |-> threadId, status |-> "idle", temporary |-> temporary]

\* the thread id crypto.randomUUID() gives when state object `object` is made
ThreadUUID(object) == randomUUID(0 - object)

\* mutant of Push: messages.unshift(m)
Push_Unshift(objects, object, m) ==
  [objects EXCEPT ![object] = <<m>> \o @]

\* messages.push(m) on the values.messages array of a state object
Push(objects, object, m) == [objects EXCEPT ![object] = Append(@, m)]

\* handleCreateThread
handleCreateThread(thread_id, if_exists) ==
  /\ LET object == Len(heap) + 1
         threadId == IF thread_id = None THEN ThreadUUID(object) ELSE thread_id
     IN IF threadId \in DOMAIN threads /\ if_exists = "raise"
        THEN /\ http' = sendError("Thread already exists", 409)
             /\ UNCHANGED <<threads, threadStates, heap>>
        ELSE /\ Len(heap) < MaxThreadCreates
             /\ threads' = MapSet(threads, threadId, NewThread(threadId, FALSE))
             /\ heap' = Append(heap, <<>>)
             /\ threadStates' = MapSet(threadStates, threadId, object)
             /\ http' = sendJson(201, threadId, <<>>, "none")
  /\ UNCHANGED <<runs, lg>>
  /\ resp' = NoResponse
  /\ UNCHANGED <<a2aStore, libVars>>

\* handleGetThread
handleGetThread(id) ==
  /\ http' = IF id \notin DOMAIN threads
             THEN sendError("Thread not found", 404)
             ELSE sendJson(200, id, <<>>, "none")
  /\ UNCHANGED <<threads, threadStates, heap, runs, lg>>
  /\ resp' = NoResponse
  /\ UNCHANGED <<a2aStore, libVars>>

\* handleDeleteThread
handleDeleteThread(id) ==
  /\ IF id \notin DOMAIN threads
     THEN /\ http' = sendError("Thread not found", 404)
          /\ UNCHANGED <<threads, threadStates>>
     ELSE /\ threads' = MapDelete(threads, id)
          /\ threadStates' = MapDelete(threadStates, id)
          /\ http' = sendJson(204, None, <<>>, "none")
  /\ UNCHANGED <<heap, runs, lg>>
  /\ resp' = NoResponse
  /\ UNCHANGED <<a2aStore, libVars>>

\* handleGetThreadState
handleGetThreadState(id) ==
  /\ http' = IF id \notin DOMAIN threadStates
             THEN sendError("Thread not found", 404)
             ELSE sendJson(200, None, heap[threadStates[id]], "none")
  /\ UNCHANGED <<threads, threadStates, heap, runs, lg>>
  /\ resp' = NoResponse
  /\ UNCHANGED <<a2aStore, libVars>>

\* handleGetRun
handleGetRun(runId) ==
  /\ http' = IF runId \notin DOMAIN runs
             THEN sendError("Run not found", 404)
             ELSE sendJson(200, runs[runId].thread_id, <<>>, runs[runId].status)
  /\ UNCHANGED <<threads, threadStates, heap, runs, lg>>
  /\ resp' = NoResponse
  /\ UNCHANGED <<a2aStore, libVars>>

\* mutant of NewRun: the handler is called once by executeRun and once more by
\* executeRunSync
NewRun_CallsTwice(kind, thread, object, hasState, frames, run) ==
  [kind |-> kind, thread |-> thread, object |-> object, hasState |-> hasState,
   pc |-> "running", open |-> TRUE, frames |-> frames, n |-> 0,
   last |-> NoMessage, run |-> run, calls |-> 2, error |-> NoError]

\* the record of a run request whose handler has been called: config.handler
\* was called `calls` times for it
NewRun(kind, thread, object, hasState, frames, run) ==
  [kind |-> kind, thread |-> thread, object |-> object, hasState |-> hasState,
   pc |-> "running", open |-> TRUE, frames |-> frames, n |-> 0,
   last |-> NoMessage, run |-> run, calls |-> 1, error |-> NoError]

\* the message of the run request number r: inputToA2AMessage(payload.input)
\* with contextId set to the thread
InputMessage(r, thread) == RequestMessage(r, thread)

\* mutant of RunWait: executeRunSync works on a copy of the thread's
\* messages array, [...threadState.values.messages]
RunWait_CopiesMessages(limit, threadId) ==
  /\ handlerKind = "generator"
  /\ taskCounter + Len(lg) < limit
  /\ LET temporary == threadId = None
         actualThreadId == IF temporary THEN ThreadUUID(Len(heap) + 1)
                           ELSE threadId
         threads1 == IF temporary
                     THEN MapSet(threads, actualThreadId,
                                 NewThread(actualThreadId, TRUE))
                     ELSE threads
         states1 == IF temporary
                    THEN MapSet(threadStates, actualThreadId, Len(heap) + 1)
                    ELSE threadStates
         heap1 == IF temporary THEN Append(heap, <<>>) ELSE heap
         hasState == actualThreadId \in DOMAIN states1
         object == Len(heap1) + 1
         heap2 == Append(heap1, IF hasState THEN heap1[states1[actualThreadId]]
                                ELSE <<>>)
         message == InputMessage(Len(lg) + 1, actualThreadId)
     IN /\ threads' = threads1
        /\ threadStates' = states1
        /\ heap' = Push(heap2, object, a2aToLangGraphMessage(message))
        /\ lg' = Append(lg, NewRun("wait", actualThreadId, object, hasState,
                                   <<>>, 0))
  /\ http' = NoHttp
  /\ UNCHANGED runs
  /\ resp' = NoResponse
  /\ UNCHANGED <<a2aStore, libVars>>

\* handleRunWait up to the first await on the handler: createTemporaryThread
\* when there is no thread in the path, then executeRunSync
RunWait(limit, threadId) ==
  /\ handlerKind = "generator"
  /\ taskCounter + Len(lg) < limit
  /\ LET temporary == threadId = None
         actualThreadId == IF temporary THEN ThreadUUID(Len(heap) + 1)
                           ELSE threadId
         threads1 == IF temporary
                     THEN MapSet(threads, actualThreadId,
                                 NewThread(actualThreadId, TRUE))
                     ELSE threads
         states1 == IF temporary
                    THEN MapSet(threadStates, actualThreadId, Len(heap) + 1)
                    ELSE threadStates
         heap1 == IF temporary THEN Append(heap, <<>>) ELSE heap
         hasState == actualThreadId \in DOMAIN states1
         object == IF hasState THEN states1[actualThreadId] ELSE Len(heap1) + 1
         heap2 == IF hasState THEN heap1 ELSE Append(heap1, <<>>)
         message == InputMessage(Len(lg) + 1, actualThreadId)
     IN /\ threads' = threads1
        /\ threadStates' = states1
        /\ heap' = Push(heap2, object, a2aToLangGraphMessage(message))
        /\ lg' = Append(lg, NewRun("wait", actualThreadId, object, hasState,
                                   <<>>, 0))
  /\ http' = NoHttp
  /\ UNCHANGED runs
  /\ resp' = NoResponse
  /\ UNCHANGED <<a2aStore, libVars>>

handleRunWait(threadId) == RunWait(MaxRequests, threadId)

\* the run object handleCreateRun stores
NewLangGraphRun(threadId) == [thread_id |-> threadId, status |-> "pending"]

\* executeRun(run, payload) up to its await on executeRunSync
executeRun(run) == [run EXCEPT !.status = "running"]

\* handleCreateRun: the run is stored pending, executeRun marks it running and
\* runs executeRunSync up to the first await on the handler, then the run
\* object is sent with status 201
CreateRun(limit, threadId) ==
  /\ handlerKind = "generator"
  /\ taskCounter + Len(lg) < limit
  /\ LET hasState == threadId \in DOMAIN threadStates
         object == IF hasState THEN threadStates[threadId] ELSE Len(heap) + 1
         heap1 == IF hasState THEN heap ELSE Append(heap, <<>>)
         message == InputMessage(Len(lg) + 1, threadId)
         runId == Len(runs) + 1
         run == executeRun(NewLangGraphRun(threadId))
     IN /\ runs' = Append(runs, run)
        /\ heap' = Push(heap1, object, a2aToLangGraphMessage(message))
        /\ lg' = Append(lg, NewRun("background", threadId, object, hasState,
                                   <<>>, runId))
        /\ http' = sendJson(201, threadId, <<>>, run.status)
  /\ UNCHANGED <<threads, threadStates>>
  /\ resp' = NoResponse
  /\ UNCHANGED <<a2aStore, libVars>>

handleCreateRun(threadId) == CreateRun(MaxRequests, threadId)

\* handleRunStream up to the first await on the handler
RunStream(limit, threadId) ==
  /\ handlerKind = "generator"
  /\ taskCounter + Len(lg) < limit
  /\ LET temporary == threadId = None
         actualThreadId == IF temporary THEN ThreadUUID(Len(heap) + 1)
                           ELSE threadId
         threads1 == IF temporary
                     THEN MapSet(threads, actualThreadId,
                                 NewThread(actualThreadId, TRUE))
                     ELSE threads
         states1 == IF temporary
                    THEN MapSet(threadStates, actualThreadId, Len(heap) + 1)
                    ELSE threadStates
         heap1 == IF temporary THEN Append(heap, <<>>) ELSE heap
         hasState == actualThreadId \in DOMAIN states1
         object == IF hasState THEN states1[actualThreadId] ELSE Len(heap1) + 1
         heap2 == IF hasState THEN heap1 ELSE Append(heap1, <<>>)
         message == InputMessage(Len(lg) + 1, actualThreadId)
     IN /\ threads' = threads1
        /\ threadStates' = states1
        /\ heap' = Push(heap2, object, a2aToLangGraphMessage(message))
        /\ lg' = Append(lg, NewRun("stream", actualThreadId, object, hasState,
                                   <<writeSSE("metadata", actualThreadId, <<>>, "")>>,
                                   0))
  /\ http' = NoHttp
  /\ UNCHANGED runs
  /\ resp' = NoResponse
  /\ UNCHANGED <<a2aStore, libVars>>

handleRunStream(threadId) == RunStream(MaxRequests, threadId)

\* the body of `for await (const update of this.config.handler(context))`
\* for one yielded update, in executeRunSync and in handleRunStream
RunYields(r, update) ==
  /\ r \in DOMAIN lg
  /\ lg[r].pc = "running"
  /\ nYields < MaxYields
  /\ update \in TaskYieldUpdates(r, lg[r].n + 1)
  /\ LET hasMessage == update.message # NoMessage
         lgMessage == a2aToLangGraphMessage(update.message)
         heap1 == IF hasMessage THEN Push(heap, lg[r].object, lgMessage) ELSE heap
         lastMessage == IF hasMessage THEN update.message ELSE lg[r].last
         written ==
           (IF hasMessage
            THEN <<writeSSE("messages", None, <<lgMessage>>, ""),
                   writeSSE("values", None, heap1[lg[r].object], "")>>
            ELSE <<>>)
           \o <<writeSSE("updates", None,
                         IF lastMessage = NoMessage THEN <<>>
                         ELSE <<a2aToLangGraphMessage(lastMessage)>>, "")>>
     IN /\ heap' = heap1
        /\ lg' = [lg EXCEPT ![r].n = @ + 1,
                            ![r].last = IF lg[r].kind = "stream"
                                        THEN lastMessage ELSE @,
                            ![r].frames = IF lg[r].kind = "stream"
                                          THEN @ \o written ELSE @]
  /\ nYields' = nYields + 1
  /\ http' = NoHttp
  /\ UNCHANGED <<threads, threadStates, runs>>
  /\ resp' = NoResponse
  /\ UNCHANGED <<tasks, taskCounter, subs, req, handlerKind, now, libVars>>

\* the handler's generator is exhausted
RunReturns(r) ==
  /\ r \in DOMAIN lg
  /\ lg[r].pc = "running"
  /\ threadStates' = IF lg[r].kind = "stream" /\ ~lg[r].hasState
                     THEN threadStates
                     ELSE MapSet(threadStates, lg[r].thread, lg[r].object)
  /\ lg' = [lg EXCEPT ![r].pc = "done",
                      ![r].open = IF lg[r].kind = "background" THEN @ ELSE FALSE,
                      ![r].frames = IF lg[r].kind = "stream"
                                    THEN Append(@, writeSSE("end", None, <<>>, ""))
                                    ELSE @]
  /\ runs' = IF lg[r].kind = "background"
             THEN [runs EXCEPT ![lg[r].run].status = "success"]
             ELSE runs
  /\ http' = IF lg[r].kind = "wait"
             THEN sendJson(200, None, heap[lg[r].object], "none")
             ELSE NoHttp
  /\ UNCHANGED <<threads, heap>>
  /\ resp' = NoResponse
  /\ UNCHANGED <<a2aStore, libVars>>

\* mutant of RunThrows: the catch block of executeRun marks the run a success
RunThrows_MarksSuccess(r) ==
  /\ r \in DOMAIN lg
  /\ lg[r].pc = "running"
  /\ \E error \in Exceptions :
       LET message == IF error.isError THEN error.message ELSE "Unknown error"
       IN  lg' = [lg EXCEPT
                    ![r].pc = "done",
                    ![r].open = IF lg[r].kind = "background" THEN @ ELSE FALSE,
                    ![r].error = error,
                    ![r].frames = IF lg[r].kind = "stream"
                                  THEN Append(@, writeSSE("error", None, <<>>,
                                                          message))
                                  ELSE @]
  /\ runs' = IF lg[r].kind = "background"
             THEN [runs EXCEPT ![lg[r].run].status = "success"]
             ELSE runs
  /\ http' = IF lg[r].kind = "wait"
             THEN sendError("Internal server error", 500)
             ELSE NoHttp
  /\ UNCHANGED <<threads, threadStates, heap>>
  /\ resp' = NoResponse
  /\ UNCHANGED <<a2aStore, libVars>>

\* mutant of RunThrows: the catch block of handleRunStream writes no frame
RunThrows_NoErrorFrame(r) ==
  /\ r \in DOMAIN lg
  /\ lg[r].pc = "running"
  /\ \E error \in Exceptions :
       lg' = [lg EXCEPT
                    ![r].pc = "done",
                    ![r].open = IF lg[r].kind = "background" THEN @ ELSE FALSE,
                    ![r].error = error]
  /\ runs' = IF lg[r].kind = "background"
             THEN [runs EXCEPT ![lg[r].run].status = "error"]
             ELSE runs
  /\ http' = IF lg[r].kind = "wait"
             THEN sendError("Internal server error", 500)
             ELSE NoHttp
  /\ UNCHANGED <<threads, threadStates, heap>>
  /\ resp' = NoResponse
  /\ UNCHANGED <<a2aStore, libVars>>

\* the handler throws: handleRunStream writes an error frame and ends the
\* response, executeRun marks the run as error, and the rejection of
\* handleRunWait reaches the catch of listen()
RunThrows(r) ==
  /\ r \in DOMAIN lg
  /\ lg[r].pc = "running"
  /\ \E error \in Exceptions :
       LET message == IF error.isError THEN error.message ELSE "Unknown error"
       IN  lg' = [lg EXCEPT
                    ![r].pc = "done",
                    ![r].open = IF lg[r].kind = "background" THEN @ ELSE FALSE,
                    ![r].error = error,
                    ![r].frames = IF lg[r].kind = "stream"
                                  THEN Append(@, writeSSE("error", None, <<>>,
                                                          message))
                                  ELSE @]
  /\ runs' = IF lg[r].kind = "background"
             THEN [runs EXCEPT ![lg[r].run].status = "error"]
             ELSE runs
  /\ http' = IF lg[r].kind = "wait"
             THEN sendError("Internal server error", 500)
             ELSE NoHttp
  /\ UNCHANGED <<threads, threadStates, heap>>
  /\ resp' = NoResponse
  /\ UNCHANGED <<a2aStore, libVars>>

Next ==
  \/ Tick
  \/ \E ctx \in ClientContexts : handleSendMessage(ctx)
  \/ \E ctx \in ClientContexts : handleSendStreamingMessage(ctx)
  \/ \E t \in TaskIds : \E k \in 1..MaxYields :
       \E event \in HandlerEvents(t, k) : HandlerYields(t, event)
  \/ \E t \in TaskIds : HandlerReturns(t)
  \/ \E t \in TaskIds : PromiseResolves(t)
  \/ \E t \in TaskIds : HandlerThrows(t)
  \/ \E taskId \in TaskIds : handleGetTask(taskId)
  \/ \E taskId \in TaskIds : handleCancelTask(taskId)
  \/ \E taskId \in TaskIds : handleSubscribeToTask(taskId)
  \/ \E s \in 1..MaxSubs : ClientDisconnect(s)

Spec == Init /\ [][Next]_vars

\* the updates of a handler that reports working and completed, with or
\* without a message
DualEvents(t, k) ==
  {event \in StatusEvents(t, k) : event.state \in {"working", "completed"}}

\* AgentServer: the A2A adapter and the LangGraph adapter behind one port,
\* both given the same TaskHandler
NextDual ==
  \/ \E ctx \in ClientContexts : handleSendMessage(ctx)
  \/ \E ctx \in ClientContexts : handleSendStreamingMessage(ctx)
  \/ \E t \in TaskIds : \E k \in 1..MaxYields :
       \E event \in DualEvents(t, k) : HandlerYields(t, event)
  \/ \E t \in TaskIds : HandlerReturns(t)
  \/ \E t \in TaskIds : PromiseResolves(t)
  \/ \E taskId \in TaskIds : handleGetTask(taskId)
  \/ \E taskId \in TaskIds : handleCancelTask(taskId)
  \/ \E taskId \in TaskIds : handleSubscribeToTask(taskId)
  \/ \E contextId \in ClientContexts : \E status \in ListStatuses :
       \E pageSize \in PageSizes : handleListTasks(contextId, status, pageSize)
  \/ \E thread_id \in ClientContexts : \E if_exists \in {"raise", "do_nothing"} :
       handleCreateThread(thread_id, if_exists)
  \/ \E id \in ClientThreads : handleGetThread(id)
  \/ \E id \in ClientThreads : handleDeleteThread(id)
  \/ \E id \in ClientThreads : handleGetThreadState(id)
  \/ \E runId \in 1..MaxRunIds : handleGetRun(runId)
  \/ \E threadId \in ClientContexts : handleRunWait(threadId)
  \/ \E threadId \in ClientThreads : handleCreateRun(threadId)
  \/ \E threadId \in ClientContexts : handleRunStream(threadId)
  \/ \E r \in 1..MaxRequests : \E k \in 1..MaxYields :
       \E update \in TaskYieldUpdates(r, k) : RunYields(r, update)
  \/ \E r \in 1..MaxRequests : RunReturns(r)
  \/ \E r \in 1..MaxRequests : RunThrows(r)

SpecDual == Init /\ [][NextDual]_vars

\* the updates of a handler that reports working and completed without a
\* message
StoreEvents(t, k) ==
  {event \in StatusEvents(t, k) :
     event.state \in {"working", "completed"} /\ event.message = NoMessage}

\* the A2A adapter serving several message/send and message/stream requests
\* and tasks/list
NextStore ==
  \/ \E ctx \in ClientContexts : SendMessage(MaxStored, ctx)
  \/ \E ctx \in ClientContexts : SendStreamingMessage(MaxStored, ctx)
  \/ \E t \in 1..MaxStored : \E k \in 1..MaxYields :
       \E event \in StoreEvents(t, k) : HandlerYields(t, event)
  \/ \E t \in 1..MaxStored : HandlerReturns(t)
  \/ \E t \in 1..MaxStored : PromiseResolves(t)
  \/ \E contextId \in ClientContexts : \E status \in ListStatuses :
       \E pageSize \in PageSizes : handleListTasks(contextId, status, pageSize)

SpecStore == Init /\ [][NextStore]_vars

\* ------------------------------------------------ requests of a bad shape
\* bodies of POST / that are not a well-formed call: text that is no JSON, a
\* method the switch does not know, and message/send and message/stream
\* without params.message
BadRequests == {"invalid json", "a2a.UnknownMethod", "message/send",
                "message/stream"}

\* mutant of handleJsonRpc: the task is created before the message is looked at
handleJsonRpc_CreatesTask(body) ==
  /\ body \in BadRequests
  /\ taskCounter < MaxRequests
  /\ resp' = IF body = "invalid json"
             THEN createJsonRpcError(body, PARSE_ERROR, "Parse error")
             ELSE IF body = "a2a.UnknownMethod"
             THEN createJsonRpcError(body, METHOD_NOT_FOUND, "Method not found")
             ELSE createJsonRpcError(body, INTERNAL_ERROR, "TypeError")
  /\ IF body \in {"message/send", "message/stream"}
     THEN LET task == createTask(taskCounter, NoMessage, now)
          IN /\ taskCounter' = task.id
             /\ tasks' = MapSet(tasks, task.id, task)
     ELSE UNCHANGED <<tasks, taskCounter>>
  /\ UNCHANGED <<subs, req, handlerKind, nYields, now>>
  /\ http' = NoHttp
  /\ UNCHANGED <<lgStore, libVars>>

\* handleJsonRpc for a body of a bad shape: JSON.parse throws and 400 with a
\* parse error is sent; the switch falls to its default; normalizeMessage
\* reads message.parts of undefined, the TypeError leaves handleSendMessage or
\* handleSendStreamingMessage before createTask and is answered by the catch
handleJsonRpc(body) ==
  /\ body \in BadRequests
  /\ resp' = IF body = "invalid json"
             THEN createJsonRpcError(body, PARSE_ERROR, "Parse error")
             ELSE IF body = "a2a.UnknownMethod"
             THEN createJsonRpcError(body, METHOD_NOT_FOUND, "Method not found")
             ELSE createJsonRpcError(body, INTERNAL_ERROR, "TypeError")
  /\ UNCHANGED <<tasks, taskCounter, subs, req, handlerKind, nYields, now>>
  /\ http' = NoHttp
  /\ UNCHANGED <<lgStore, libVars>>

\* the A2A adapter receiving well-formed and badly formed requests
NextShape ==
  \/ \E ctx \in ClientContexts : handleSendMessage(ctx)
  \/ \E ctx \in ClientContexts : handleSendStreamingMessage(ctx)
  \/ \E t \in TaskIds : \E k \in 1..MaxYields :
       \E event \in DualEvents(t, k) : HandlerYields(t, event)
  \/ \E t \in TaskIds : HandlerReturns(t)
  \/ \E t \in TaskIds : PromiseResolves(t)
  \/ \E t \in TaskIds : handleSubscribeToTask(t)
  \/ \E body \in BadRequests : handleJsonRpc(body)

SpecShape == Init /\ [][NextShape]_vars

\* ------------------------------------------------ the tests' echo handler
\* the k-th event of echoHandler: working, then completed with the echo
echoHandler(t, k) ==
  [type |-> "task_status_update", taskId |-> "pending",
   state |-> IF k = 1 THEN "working" ELSE "completed",
   message |-> IF k = 1 THEN NoMessage ELSE AgentMessage(t, k)]

\* the adapter takes the next event of echoHandler
EchoYields(t) ==
  /\ t \in DOMAIN req
  /\ req[t].n < 2
  /\ HandlerYields(t, echoHandler(t, req[t].n + 1))

\* echoHandler returns after its second event
EchoReturns(t) ==
  /\ t \in DOMAIN req
  /\ req[t].n = 2
  /\ HandlerReturns(t)

\* the A2A adapter of the server tests: handleMessage is echoHandler
NextEcho ==
  \/ Tick
  \/ \E ctx \in ClientContexts : handleSendMessage(ctx)
  \/ \E ctx \in ClientContexts : handleSendStreamingMessage(ctx)
  \/ \E t \in TaskIds : EchoYields(t)
  \/ \E t \in TaskIds : EchoReturns(t)
  \/ \E t \in TaskIds : handleGetTask(t)
  \/ \E t \in TaskIds : handleCancelTask(t)
  \/ \E t \in TaskIds : handleSubscribeToTask(t)
  \/ \E s \in 1..MaxSubs : ClientDisconnect(s)

\* createA2AServer({handleMessage: echoHandler}): an async generator
InitEcho == Init /\ handlerKind = "generator"

SpecEcho == InitEcho /\ [][NextEcho]_vars

\* ------------------------------------------ several requests in flight
\* the A2A adapter serving MaxStreams message/stream requests, one started
\* while the other is drained, and a tasks/resubscribe stream
NextStreams ==
  \/ Tick
  \/ \E ctx \in ClientContexts : SendStreamingMessage(MaxStreams, ctx)
  \/ \E t \in 1..MaxStreams : \E k \in 1..MaxYields :
       \E event \in HandlerEvents(t, k) : HandlerYields(t, event)
  \/ \E t \in 1..MaxStreams : HandlerReturns(t)
  \/ \E t \in 1..MaxStreams : PromiseResolves(t)
  \/ \E t \in 1..MaxStreams : HandlerThrows(t)
  \/ \E t \in 1..MaxStreams : handleSubscribeToTask(t)

SpecStreams == Init /\ [][NextStreams]_vars

\* ------------------------------------------- several subscribers of a task
\* the A2A adapter serving one request and MaxListeners tasks/resubscribe
\* streams, whose responses are closed by the client or after their end
NextListeners ==
  \/ \E ctx \in ClientContexts : handleSendMessage(ctx)
  \/ \E ctx \in ClientContexts : handleSendStreamingMessage(ctx)
  \/ \E t \in TaskIds : \E k \in 1..MaxYields :
       \E event \in DualEvents(t, k) \cup ArtifactEvents(t, k) :
         HandlerYields(t, event)
  \/ \E t \in TaskIds : HandlerReturns(t)
  \/ \E t \in TaskIds : handleCancelTask(t)
  \/ \E t \in TaskIds : SubscribeToTask(MaxListeners, t)
  \/ \E s \in 1..MaxListeners : ResClose(s)

SpecListeners == InitEcho /\ [][NextListeners]_vars

\* the LangGraph adapter alone, serving MaxRuns run requests one after the
\* other or at the same time, with handlers that yield working updates
RunUpdates(r, k) ==
  [state : {"working"}, message : {NoMessage, AgentMessage(r, k)}]

NextRuns ==
  \/ \E id \in ClientThreads : handleCreateThread(id, "do_nothing")
  \/ \E id \in ClientThreads : handleGetThreadState(id)
  \/ \E id \in ClientThreads : handleDeleteThread(id)
  \/ \E id \in ClientContexts : RunWait(MaxRuns, id)
  \/ \E id \in ClientContexts : RunStream(MaxRuns, id)
  \/ \E r \in 1..MaxRuns : \E k \in 1..MaxYields :
       \E update \in RunUpdates(r, k) : RunYields(r, update)
  \/ \E r \in 1..MaxRuns : RunReturns(r)
  \/ \E r \in 1..MaxRuns : RunThrows(r)

SpecRuns == Init /\ [][NextRuns]_vars

\* --------------------------------------------- runs on an existing thread
\* POST /threads/:id/runs/wait, /runs/stream and /runs for a thread that
\* POST /threads has created
RunWaitOnThread(threadId) ==
  /\ threadId \in DOMAIN threads
  /\ RunWait(MaxRuns, threadId)

RunStreamOnThread(threadId) ==
  /\ threadId \in DOMAIN threads
  /\ RunStream(MaxRuns, threadId)

CreateRunOnThread(threadId) ==
  /\ threadId \in DOMAIN threads
  /\ CreateRun(MaxRuns, threadId)

\* the LangGraph adapter serving clients that create a thread once
\* (if_exists = raise), start MaxRuns runs on it, one after the other or at
\* the same time, and read its state and its runs
NextShared ==
  \/ \E thread_id \in ClientContexts : handleCreateThread(thread_id, "raise")
  \/ \E id \in ClientThreads : handleGetThreadState(id)
  \/ \E runId \in 1..MaxRuns : handleGetRun(runId)
  \/ \E id \in ClientThreads : RunWaitOnThread(id)
  \/ \E id \in ClientThreads : RunStreamOnThread(id)
  \/ \E id \in ClientThreads : CreateRunOnThread(id)
  \/ \E r \in 1..MaxRuns : \E k \in 1..MaxYields :
       \E update \in RunUpdates(r, k) : RunYields(r, update)
  \/ \E r \in 1..MaxRuns : RunReturns(r)
  \/ \E r \in 1..MaxRuns : RunThrows(r)

SpecShared == Init /\ [][NextShared]_vars

\* the same with handlers that terminate: the generator of every run that
\* was started ends, by returning or by throwing, and the run's loop is
\* resumed
SpecTerminating ==
  /\ Init
  /\ [][NextShared]_vars
  /\ \A r \in 1..MaxRuns : WF_vars(RunReturns(r) \/ RunThrows(r))

\* ------------------------------------------------- AgentServer router
\* req.method, and url.pathname as the pieces it is written with: the pieces
\* form a prefix code, so two paths are the same string exactly when they are
\* the same sequence, and String.startsWith is the prefix order on sequences
Methods == {"GET", "POST", "PUT", "DELETE", "OPTIONS"}

PathPieces ==
  {"/", ".well-known/agent-card", ".json", "info", "ok", "assistants",
   "threads", "runs", "store", "x"}

RECURSIVE PiecesUpTo(_)
PiecesUpTo(n) ==
  IF n = 0 THEN {<<>>}
  ELSE LET shorter == PiecesUpTo(n - 1)
       IN  shorter \cup {Append(q, c) : q \in shorter, c \in PathPieces}

\* a pathname starts with a slash
Paths == {<<"/">> \o q : q \in PiecesUpTo(MaxPieces)}

startsWith(path, prefix) ==
  /\ Len(path) >= Len(prefix)
  /\ SubSeq(path, 1, Len(prefix)) = prefix

\* handleRequest of AgentServer with the OPTIONS rule tried before the
\* LangGraph paths
AgentServer_handleRequest_OptionsFirst(method, path) ==
  IF \/ path = <<"/", ".well-known/agent-card", ".json">>
     \/ path = <<"/", ".well-known/agent-card">>
    THEN <<"a2a">>
  ELSE IF path = <<"/">> /\ method = "POST"
    THEN <<"a2a">>
  ELSE IF method = "OPTIONS"
    THEN <<"cors">>
  ELSE IF \/ path = <<"/", "info">>
          \/ path = <<"/", "ok">>
          \/ startsWith(path, <<"/", "assistants">>)
          \/ startsWith(path, <<"/", "threads">>)
          \/ startsWith(path, <<"/", "runs">>)
          \/ startsWith(path, <<"/", "store">>)
    THEN <<"langgraph">>
  ELSE <<"404">>

\* AgentServer.handleRequest: the handlers the request is passed to and the
\* responses the router writes itself, in order; every rule returns
AgentServer_handleRequest(method, path) ==
  IF \/ path = <<"/", ".well-known/agent-card", ".json">>
     \/ path = <<"/", ".well-known/agent-card">>
    THEN <<"a2a">>
  ELSE IF path = <<"/">> /\ method = "POST"
    THEN <<"a2a">>
  ELSE IF \/ path = <<"/", "info">>
          \/ path = <<"/", "ok">>
          \/ startsWith(path, <<"/", "assistants">>)
          \/ startsWith(path, <<"/", "threads">>)
          \/ startsWith(path, <<"/", "runs">>)
          \/ startsWith(path, <<"/", "store">>)
    THEN <<"langgraph">>
  ELSE IF method = "OPTIONS"
    THEN <<"cors">>
  ELSE <<"404">>

\* a request arrives at the dual server's port
InitRouter ==
  /\ Constructed
  /\ call \in [fn : {"handleRequest"},
               input : [method : Methods, path : Paths],
               output : {<<>>}]
  /\ client = NoClient

\* the http server calls handleRequest(req, res)
Dispatch ==
  /\ call.fn = "handleRequest"
  /\ call.output = <<>>
  /\ call' = [call EXCEPT !.output =
                AgentServer_handleRequest(call.input.method, call.input.path)]
  /\ UNCHANGED <<a2aStore, lgStore, resp, http, client>>

NextRouter == Dispatch

SpecRouter == InitRouter /\ [][NextRouter]_vars

\* -------------------------------------------- LangGraph run input
\* a JSON value of payload.input: absent, a string (s) or something else;
\* an array is carried in a
Absent == [t |-> "absent", s |-> "", a |-> <<>>]

String(s) == [t |-> "string", s |-> s, a |-> <<>>]

Number == [t |-> "number", s |-> "", a |-> <<>>]

Array(a) == [t |-> "array", s |-> "", a |-> a]

Null == [t |-> "null", s |-> "", a |-> <<>>]

\* the content blocks of a LangGraph message whose content is an array
ContentArrays ==
  {<<[type |-> "text", text |-> String("hi")]>>,
   <<[type |-> "text", text |-> String("hi")],
     [type |-> "image_url", text |-> Absent],
     [type |-> "text", text |-> String("yo")]>>,
   <<[type |-> "text", text |-> Absent]>>}

\* the elements of input.messages: LangGraph messages, well formed or not
LangGraphMessages ==
  [t : {"object"}, type : {"human", "ai"},
   content : {String("hi"), String("yo"), Absent, Number}
               \cup {Array(a) : a \in ContentArrays}]
  \cup {[t |-> "null", type |-> "", content |-> Absent]}

RECURSIVE MessagesUpTo(_)
MessagesUpTo(n) ==
  IF n = 0 THEN {<<>>}
  ELSE LET shorter == MessagesUpTo(n - 1)
       IN  shorter \cup {Append(q, m) : q \in shorter, m \in LangGraphMessages}

\* payload.input || {}: an object and its four keys the code looks at
RunInputs ==
  [messages : {Absent, String("hi")}
                \cup {Array(a) : a \in MessagesUpTo(MaxMessages)},
   message : {Absent, String("hi"), Number},
   content : {Absent, String("hi"), Number},
   text : {Absent, String("hi"), Number}]

\* a text as its lines: the strings above hold no line break, so
\* Array.join("\n") of one or more strings is the sequence of them, and of
\* none it is the empty string
join(strings) == IF strings = <<>> THEN <<"">> ELSE strings

Text(lines) == [lines |-> lines, json |-> <<>>]

\* JSON.stringify(input)
stringify(input) == [lines |-> <<>>, json |-> <<input>>]

TextMessage(role, text) ==
  [threw |-> FALSE, role |-> role,
   parts |-> <<[type |-> "text", text |-> text]>>]

\* a TypeError leaves the function
TypeError == [threw |-> TRUE, role |-> "", parts |-> <<>>]

\* c.text || ""
TextOrEmpty(c) == IF c.text.t = "string" THEN c.text.s ELSE ""

\* langGraphToA2AMessage: content that is neither a string nor an array has
\* no filter method
langGraphToA2AMessage(msg) ==
  LET role == IF msg.type = "human" THEN "user" ELSE "agent"
  IN  IF msg.content.t = "string"
        THEN TextMessage(role, Text(<<msg.content.s>>))
      ELSE IF msg.content.t = "array"
        THEN LET texts == SelectSeq(msg.content.a, LAMBDA c : c.type = "text")
             IN  TextMessage(role,
                   Text(join([i \in 1..Len(texts) |-> TextOrEmpty(texts[i])])))
      ELSE TypeError

\* inputToA2AMessage
inputToA2AMessage(input) ==
  LET hasLast == /\ input.messages.t = "array"
                 /\ input.messages.a # <<>>
                 /\ input.messages.a[Len(input.messages.a)].t # "null"
  IN  IF hasLast
        THEN langGraphToA2AMessage(input.messages.a[Len(input.messages.a)])
      ELSE IF input.message.t = "string"
        THEN TextMessage("user", Text(<<input.message.s>>))
      ELSE IF input.content.t = "string"
        THEN TextMessage("user", Text(<<input.content.s>>))
      ELSE IF input.text.t = "string"
        THEN TextMessage("user", Text(<<input.text.s>>))
      ELSE TextMessage("user", stringify(input))

\* a run request's body has been parsed
InitInput ==
  /\ Constructed
  /\ call \in [fn : {"inputToA2AMessage"}, input : RunInputs, output : {<<>>}]
  /\ client = NoClient

\* executeRunSync and handleRunStream call inputToA2AMessage(payload.input)
ConvertInput ==
  /\ call.fn = "inputToA2AMessage"
  /\ call.output = <<>>
  /\ call' = [call EXCEPT !.output = <<inputToA2AMessage(call.input)>>]
  /\ UNCHANGED <<a2aStore, lgStore, resp, http, client>>

NextInput == ConvertInput

SpecInput == InitInput /\ [][NextInput]_vars

\* ------------------------------------------- parts on the wire and inside
\* a JavaScript object as the function from its own keys to their values
Without(object, key) == [k \in DOMAIN object \ {key} |-> object[k]]

With(object, key, value) ==
  [k \in DOMAIN object \cup {key} |-> IF k = key THEN value ELSE object[k]]

\* the parts a message may hold: a TextPart, FilePart, DataPart or
\* ArtifactPart, whose content is under the key named like its type, with or
\* without metadata, and also objects that carry a kind key of their own
PartObjects ==
  LET typed == {With(With(<<>>, "type", t), t, v) :
                  t \in {"text", "file", "data", "artifact"},
                  v \in {"content-1", "content-2"}}
      withMetadata == typed \cup {With(q, "metadata", "metadata-1") : q \in typed}
  IN  withMetadata \cup {With(q, "kind", "other") : q \in withMetadata}

RECURSIVE PartsUpTo(_)
PartsUpTo(n) ==
  IF n = 0 THEN {<<>>}
  ELSE LET shorter == PartsUpTo(n - 1)
       IN  shorter \cup {Append(q, c) : q \in shorter, c \in PartObjects}

\* mutant of partToKind: kind is added and type is kept
partToKind_KeepsType(part) ==
  IF "type" \in DOMAIN part /\ "kind" \notin DOMAIN part
  THEN With(part, "kind", part.type)
  ELSE part

\* partToKind of the server
partToKind(part) ==
  IF "type" \in DOMAIN part /\ "kind" \notin DOMAIN part
  THEN With(Without(part, "type"), "kind", part.type)
  ELSE part

\* normalizePart of the server
normalizePart(part) ==
  IF "kind" \in DOMAIN part /\ "type" \notin DOMAIN part
  THEN With(Without(part, "kind"), "type", part.kind)
  ELSE part

\* normalizeMessage of the server
normalizeMessage(message) ==
  [message EXCEPT !.parts = [i \in DOMAIN @ |-> normalizePart(@[i])]]

\* the server's wire form of a message's parts, as messageToKind builds it
messageToKind(message) ==
  [role |-> message.role, kind |-> "message", message_id |-> randomUUID(0),
   parts |-> [i \in DOMAIN message.parts |-> partToKind(message.parts[i])]]

\* messageToWireFormat of the client, for a message without contextId, taskId
\* and metadata
messageToWireFormat(message) ==
  [role |-> message.role,
   parts |-> [i \in DOMAIN message.parts |->
                LET part == message.parts[i]
                IN  IF "type" \in DOMAIN part /\ "kind" \notin DOMAIN part
                    THEN With(Without(part, "type"), "kind", part.type)
                    ELSE part],
   messageId |-> randomUUID(0)]

\* the part the client's normalizeMessage makes of a wire part:
\* {type: kind ?? part.type, ...rest}, where rest is the part without kind;
\* a key whose value is undefined is left out
clientNormalizePart(part) ==
  LET rest == Without(part, "kind")
  IN  IF "kind" \in DOMAIN part /\ "type" \notin DOMAIN part
      THEN With(rest, "type", part.kind)
      ELSE rest

\* normalizeMessage of the client
clientNormalizeMessage(wireMsg) ==
  [role |-> wireMsg.role,
   parts |-> [i \in DOMAIN wireMsg.parts |->
                clientNormalizePart(wireMsg.parts[i])]]

\* a message is about to leave the server or the client
InitParts ==
  /\ Constructed
  /\ call \in [fn : {"server", "client"},
               input : [role : {"user", "agent"}, parts : PartsUpTo(MaxParts)],
               output : {<<>>}]
  /\ client = NoClient

\* the message is written in wire form
ToWire ==
  /\ call.fn \in {"server", "client"}
  /\ call.output = <<>>
  /\ call' = [call EXCEPT !.output =
                <<IF call.fn = "server" THEN messageToKind(call.input)
                  ELSE messageToWireFormat(call.input)>>]
  /\ UNCHANGED <<a2aStore, lgStore, resp, http, client>>

\* the receiving side reads the wire form
FromWire ==
  /\ call.fn \in {"server", "client"}
  /\ Len(call.output) = 1
  /\ call' = [call EXCEPT !.output =
                Append(@, IF call.fn = "server"
                          THEN normalizeMessage(call.output[1])
                          ELSE clientNormalizeMessage(call.output[1]))]
  /\ UNCHANGED <<a2aStore, lgStore, resp, http, client>>

NextParts == ToWire \/ FromWire

SpecParts == InitParts /\ [][NextParts]_vars

\* ------------------------------------------ WardenA2AClient.waitForTask
\* what tasks/get answers: a wire task with its status, or without one
WireTasks ==
  [status : {[given |-> TRUE, state |-> st] : st \in TaskStates}
              \cup {[given |-> FALSE, state |-> "none"]}]

\* normalizeTask of the client: state is wireTask.status?.state ?? "submitted"
normalizeTask(wireTask) ==
  [state |-> IF wireTask.status.given THEN wireTask.status.state
             ELSE "submitted"]

\* mutant of terminalStates: rejected is missing from the set
terminalStates_NoRejected == {"completed", "failed", "cancelled"}

\* the terminalStates set of waitForTask
terminalStates == {"completed", "failed", "cancelled", "rejected"}

\* waitForTask(taskId, {pollInterval, timeout, signal}) has been called and is
\* at the head of its loop; elapsed is Date.now() - startTime
InitClient ==
  /\ Constructed
  /\ call = NoCall
  /\ client \in [pc : {"loop"}, pollInterval : 1..MaxPollInterval,
                 timeout : 0..MaxTimeout, elapsed : {0}, polls : {0},
                 aborted : {FALSE}, task : {[state |-> "none"]},
                 error : {""}]

\* controller.abort() on the signal given to waitForTask
Abort ==
  /\ client.pc \in {"loop", "polling", "sleeping"}
  /\ ~client.aborted
  /\ client' = [client EXCEPT !.aborted = TRUE]
  /\ UNCHANGED <<a2aStore, lgStore, resp, http, call>>

\* the head of the while loop: the abort check, the timeout check, then
\* this.getTask({ taskId }) is called
LoopHead ==
  /\ client.pc = "loop"
  /\ client' = IF client.aborted
               THEN [client EXCEPT !.pc = "thrown",
                                   !.error = "Operation aborted"]
               ELSE IF client.elapsed > client.timeout
               THEN [client EXCEPT !.pc = "thrown",
                                   !.error = "Timeout waiting for task"]
               ELSE [client EXCEPT !.pc = "polling", !.polls = @ + 1]
  /\ UNCHANGED <<a2aStore, lgStore, resp, http, call>>

\* tasks/get is answered with a task after `delay`: a terminal task is
\* returned, otherwise the timer of pollInterval is set
GetTaskReturns(wireTask, delay) ==
  /\ client.pc = "polling"
  /\ LET task == normalizeTask(wireTask)
     IN client' = [client EXCEPT
                     !.pc = IF task.state \in terminalStates THEN "returned"
                            ELSE "sleeping",
                     !.task = task,
                     !.elapsed = @ + delay]
  /\ UNCHANGED <<a2aStore, lgStore, resp, http, call>>

\* tasks/get is answered with a JSON-RPC error: rpc throws an A2AError, which
\* leaves waitForTask
GetTaskThrows ==
  /\ client.pc = "polling"
  /\ client' = [client EXCEPT !.pc = "thrown", !.error = "A2AError"]
  /\ UNCHANGED <<a2aStore, lgStore, resp, http, call>>

\* setTimeout(resolve, pollInterval) fires
Sleep ==
  /\ client.pc = "sleeping"
  /\ client' = [client EXCEPT !.pc = "loop",
                              !.elapsed = @ + client.pollInterval]
  /\ UNCHANGED <<a2aStore, lgStore, resp, http, call>>

NextClient ==
  \/ Abort
  \/ LoopHead
  \/ \E wireTask \in WireTasks : \E delay \in 0..1 :
       GetTaskReturns(wireTask, delay)
  \/ GetTaskThrows
  \/ Sleep

\* the event loop runs a continuation whose promise has settled, the timer
\* fires, and the server keeps answering
SpecClient ==
  /\ InitClient
  /\ [][NextClient]_vars
  /\ WF_vars(LoopHead)
  /\ WF_vars(Sleep)
  /\ WF_vars(GetTaskThrows
             \/ \E wireTask \in WireTasks : \E delay \in 0..1 :
                  GetTaskReturns(wireTask, delay))

\* ================================================================ claims
Last(seq) == seq[Len(seq)]

\* the step is an attempt to move task t to state `to`: a call of
\* updateTaskState(store, t, to, ...) by one of the adapter's handlers
AttemptsTransition(t, to) ==
  \/ \E event \in StatusEvents(t, req[t].n + 1) :
       event.state = to /\ HandlerYields(t, event)
  \/ to = "cancelled" /\ handleCancelTask(t)
  \/ to = "failed" /\ req[t].method = "stream" /\ HandlerThrows(t)
  \/ to = "completed" /\ PromiseResolves(t)

\* C1: a transition attempted on a task in state `from` towards `to` fails
\* and leaves the stored task unchanged when (from, to) is not in
\* VALID_TASK_TRANSITIONS; when it is in the table the task gets state `to`
\* and updatedAt is refreshed to the current time.
C1_TransitionValidity ==
  [][\A t \in DOMAIN tasks : \A to \in TaskStates :
       AttemptsTransition(t, to) =>
         IF canTransitionTask(tasks[t].state, to)
         THEN tasks'[t].state = to /\ tasks'[t].updatedAt = now
         ELSE tasks'[t] = tasks[t]]_vars

\* C2: once a task's stored state is terminal it never changes again.
C2_TerminalFinality ==
  [][\A t \in DOMAIN tasks :
       tasks[t].state \in TERMINAL_TASK_STATES =>
         tasks'[t].state = tasks[t].state]_vars

\* C3: tasks/cancel on a task in a terminal state answers the error
\* INVALID_PARAMS "Cannot cancel task in state ..." and leaves the stored task
\* and every subscriber's stream unchanged.
C3_CancelTerminalRejected ==
  [][\A taskId \in DOMAIN tasks :
       (tasks[taskId].state \in TERMINAL_TASK_STATES /\ handleCancelTask(taskId)) =>
         /\ ~resp'.ok
         /\ resp'.code = INVALID_PARAMS
         /\ resp'.message = "Cannot cancel task in state"
         /\ tasks' = tasks
         /\ subs' = subs]_vars

\* a status frame reporting `state`
ReportsState(frame, state) ==
  frame.kind = "status-update" /\ frame.state = state

\* C4: tasks/cancel on an existing task whose state is not terminal stores
\* the state cancelled, writes exactly one cancelled status frame on the stream
\* of every subscriber registered for that task (and nothing on the others),
\* and answers the task in wire form with status.state = cancelled.
C4_CancelNonTerminal ==
  [][\A taskId \in DOMAIN tasks :
       (tasks[taskId].state \notin TERMINAL_TASK_STATES /\ handleCancelTask(taskId)) =>
         /\ tasks'[taskId].state = "cancelled"
         /\ resp'.ok
         /\ resp'.method = "tasks/cancel"
         /\ resp'.result.kind = "task"
         /\ resp'.result.id = taskId
         /\ resp'.result.state = "cancelled"
         /\ \A s \in DOMAIN subs :
              IF subs[s].registered /\ subs[s].task = taskId
              THEN /\ Len(subs'[s].frames) = Len(subs[s].frames) + 1
                   /\ SubSeq(subs'[s].frames, 1, Len(subs[s].frames))
                        = subs[s].frames
                   /\ ReportsState(Last(subs'[s].frames), "cancelled")
                   /\ Last(subs'[s].frames).task_id = taskId
              ELSE subs'[s].frames = subs[s].frames]_vars

\* C4 witness: a subscriber of a running request whose task was working got
\* the cancelled frame, and tasks/cancel answered the cancelled task.
C4_Witness ==
  /\ resp.ok /\ resp.method = "tasks/cancel" /\ resp.result.state = "cancelled"
  /\ \E s \in DOMAIN subs :
       /\ subs[s].task = resp.result.id
       /\ req[subs[s].task].pc = "running"
       /\ Len(subs[s].frames) = 2
       /\ ReportsState(subs[s].frames[1], "working")
       /\ ReportsState(subs[s].frames[2], "cancelled")
       /\ tasks[subs[s].task].state = "cancelled"

\* C5: on a closed message/stream response the last frame reports a terminal
\* state, and on any message/stream response no frame follows the first frame
\* that reports a terminal state.
C5_StreamingTerminality ==
  \A t \in DOMAIN req :
    req[t].method = "stream" =>
      /\ ~req[t].open =>
           /\ Last(req[t].frames).kind = "status-update"
           /\ Last(req[t].frames).state \in TERMINAL_TASK_STATES
      /\ \A i \in 1..(Len(req[t].frames) - 1) :
           req[t].frames[i].state \notin TERMINAL_TASK_STATES

\* the frame written for a handler event on task t
FrameReports(frame, t, event) ==
  /\ frame.task_id = t
  /\ frame.kind = IF event.type = "task_status_update" THEN "status-update"
                  ELSE "task_artifact_update"
  /\ frame.state = event.state
  /\ frame.message = event.message

\* C6: a message/stream response starts with a submitted status frame; then
\* every update the handler yields appends exactly one frame, reporting that
\* update, at the end of the response, and appends the update's message (if
\* any) at the end of the task's history, which starts with the triggering
\* message; no other step of a generator handler's request writes a frame or
\* records a message, except the failed frame of a handler exception.
C6_StreamOrder ==
  /\ [](\A t \in DOMAIN req :
          req[t].method = "stream" =>
            /\ ReportsState(req[t].frames[1], "submitted")
            /\ tasks[t].messages[1].role = "user"
            /\ tasks[t].messages[1].seq = 0)
  /\ [][\A t \in DOMAIN req :
          (req[t].method = "stream" /\ handlerKind = "generator") =>
            \/ \E event \in HandlerEvents(t, req[t].n + 1) :
                 /\ HandlerYields(t, event)
                 /\ Len(req'[t].frames) = Len(req[t].frames) + 1
                 /\ SubSeq(req'[t].frames, 1, Len(req[t].frames)) = req[t].frames
                 /\ FrameReports(Last(req'[t].frames), t, event)
                 /\ tasks'[t].messages =
                      IF event.message = NoMessage THEN tasks[t].messages
                      ELSE tasks[t].messages \o <<event.message>>
            \/ HandlerThrows(t)
            \/ /\ req'[t].frames = req[t].frames
               /\ tasks'[t].messages = tasks[t].messages]_vars

\* C6 witness: a finished stream of a handler that yielded working and then
\* completed, each with a message.
C6_Witness ==
  \E t \in DOMAIN req :
    /\ req[t].method = "stream" /\ handlerKind = "generator"
    /\ req[t].pc = "done"
    /\ Len(req[t].frames) = 3
    /\ ReportsState(req[t].frames[2], "working")
    /\ ReportsState(req[t].frames[3], "completed")
    /\ req[t].frames[2].message = AgentMessage(t, 1)
    /\ req[t].frames[3].message = AgentMessage(t, 2)
    /\ Len(tasks[t].messages) = 3
    /\ tasks[t].messages[2] = AgentMessage(t, 1)
    /\ tasks[t].messages[3] = AgentMessage(t, 2)

\* every frame written so far, on message/stream and tasks/resubscribe streams
AllFrames ==
  UNION {{req[t].frames[i] : i \in 1..Len(req[t].frames)} : t \in DOMAIN req}
    \cup
  UNION {{subs[s].frames[i] : i \in 1..Len(subs[s].frames)} : s \in DOMAIN subs}

\* C7: every status-update frame has final = TRUE exactly when the state it
\* reports is completed, failed, cancelled or rejected.
C7_FinalIffTerminal ==
  \A frame \in AllFrames :
    frame.kind = "status-update" =>
      (frame.final <=> frame.state \in TERMINAL_TASK_STATES)

\* C7 witness: a message/stream response holding its initial frame and a
\* rejected frame, and a tasks/resubscribe stream holding a non-final and a
\* final frame.
C7_Witness ==
  /\ \E t \in DOMAIN req :
       /\ Len(req[t].frames) >= 2
       /\ ~req[t].frames[1].final
       /\ \E i \in 1..Len(req[t].frames) :
            ReportsState(req[t].frames[i], "rejected") /\ req[t].frames[i].final
  /\ \E s \in DOMAIN subs :
       /\ Len(subs[s].frames) >= 2
       /\ ~subs[s].frames[1].final
       /\ Last(subs[s].frames).final

\* C8: when the handler throws while a message/stream request is drained, the
\* adapter writes a failed status frame with final = TRUE as the last frame,
\* ends the response, and the stored state is a terminal state that the task
\* either already had or reached by a transition of VALID_TASK_TRANSITIONS.
C8_StreamHandlerThrows ==
  [][\A t \in DOMAIN req :
       (req[t].method = "stream" /\ HandlerThrows(t)) =>
         /\ ReportsState(Last(req'[t].frames), "failed")
         /\ Last(req'[t].frames).final
         /\ ~req'[t].open
         /\ tasks'[t].state \in TERMINAL_TASK_STATES
         /\ \/ tasks'[t].state = tasks[t].state
            \/ canTransitionTask(tasks[t].state, tasks'[t].state)]_vars

\* C9: when the handler's generator completes without having yielded, the
\* request finishes with its task in a terminal state: a task that was still
\* submitted is moved to failed.
C9_EmptySequenceFails ==
  [][\A t \in DOMAIN req :
       (req[t].n = 0 /\ HandlerReturns(t)) =>
         /\ tasks'[t].state \in TERMINAL_TASK_STATES
         /\ tasks[t].state = "submitted" => tasks'[t].state = "failed"]_vars

\* C10: when the handler throws during message/send, the task is not left in
\* a non-terminal state: a task that was not terminal is moved to failed and an
\* agent message carrying the error is appended to its history.
C10_SendHandlerThrows ==
  [][\A t \in DOMAIN req :
       (req[t].method = "send" /\ HandlerThrows(t)) =>
         /\ tasks'[t].state \in TERMINAL_TASK_STATES
         /\ tasks[t].state \notin TERMINAL_TASK_STATES =>
              /\ tasks'[t].state = "failed"
              /\ Len(tasks'[t].messages) = Len(tasks[t].messages) + 1
              /\ Last(tasks'[t].messages).role = "agent"]_vars

\* C11: after a successful tasks/cancel on a task whose handler is still
\* running, an update the handler yields is discarded: the stored state stays
\* cancelled, no message is appended to the history, and no frame is written
\* on the message/stream response or on a subscriber's stream.  Stated for the
\* update yielded next after the cancel was answered.
C11_YieldAfterCancelDiscarded ==
  [][\A t \in DOMAIN req :
       ( /\ resp.ok /\ resp.method = "tasks/cancel" /\ resp.result.id = t
         /\ req[t].pc = "running"
         /\ \E event \in HandlerEvents(t, req[t].n + 1) : HandlerYields(t, event) )
       => /\ tasks[t].state = "cancelled"
          /\ tasks'[t].state = "cancelled"
          /\ tasks'[t].messages = tasks[t].messages
          /\ req'[t].frames = req[t].frames
          /\ \A s \in DOMAIN subs : subs'[s].frames = subs[s].frames]_vars

\* the step is one of the entry points that create an A2A task
CreatesTask ==
  \E ctx \in ClientContexts :
    handleSendMessage(ctx) \/ handleSendStreamingMessage(ctx)

\* the step is one of the entry points that create a LangGraph run
CreatesRun ==
  \/ \E threadId \in ClientContexts :
       handleRunWait(threadId) \/ handleRunStream(threadId)
  \/ \E threadId \in ClientThreads : handleCreateRun(threadId)

C13_ResubscribeTerminal ==
  /\ [][\A taskId \in DOMAIN tasks :
          (tasks[taskId].state \in TERMINAL_TASK_STATES
             /\ handleSubscribeToTask(taskId)) =>
            /\ Len(subs') = Len(subs) + 1
            /\ SubSeq(subs', 1, Len(subs)) = subs
            /\ Last(subs').task = taskId
            /\ Len(Last(subs').frames) = 1
            /\ ReportsState(Last(subs').frames[1], tasks[taskId].state)
            /\ Last(subs').frames[1].task_id = taskId
            /\ Last(subs').frames[1].final
            /\ ~Last(subs').open
            /\ ~Last(subs').registered]_vars
  /\ [](\A s \in DOMAIN subs :
          subs[s].frames[1].state \in TERMINAL_TASK_STATES =>
            Len(subs[s].frames) = 1 /\ ~subs[s].open /\ ~subs[s].registered)

\* C13 witness: a resubscribe stream opened on a task that handler updates
\* had moved to rejected; the task was cancelled afterwards and the stream
\* still holds its single final frame.
C13_Witness ==
  \E s \in DOMAIN subs :
    /\ Len(subs[s].frames) = 1
    /\ ReportsState(subs[s].frames[1], "rejected")
    /\ subs[s].frames[1].final
    /\ ~subs[s].open /\ ~subs[s].registered
    /\ tasks[subs[s].task].state = "cancelled"

\* C14: a tasks/resubscribe stream opened on a non-terminal task starts with
\* one frame reporting the current state and then gets exactly one frame for
\* every later transition of the task, whatever causes it (handler yield,
\* promise completion, handler exception, tasks/cancel); it is closed right
\* after the first frame that reports a terminal state.
C14_ResubscribeFollows ==
  /\ [][\A taskId \in DOMAIN tasks :
          (tasks[taskId].state \notin TERMINAL_TASK_STATES
             /\ handleSubscribeToTask(taskId)) =>
            /\ Len(Last(subs').frames) = 1
            /\ ReportsState(Last(subs').frames[1], tasks[taskId].state)
            /\ Last(subs').open]_vars
  /\ [][\A s \in DOMAIN subs : \A to \in TaskStates :
          (subs[s].open /\ subs[s].registered
             /\ AttemptsTransition(subs[s].task, to)) =>
            /\ Len(subs'[s].frames) = Len(subs[s].frames) + 1
            /\ SubSeq(subs'[s].frames, 1, Len(subs[s].frames)) = subs[s].frames
            /\ ReportsState(Last(subs'[s].frames), to)
            /\ subs'[s].open = (to \notin TERMINAL_TASK_STATES)]_vars

\* C15: message/send answers only when the handler's update sequence is
\* exhausted; the task it returns has the state of the last update applied to
\* the stored task and, as history, the triggering message followed by the
\* messages of the yielded updates in yield order.  While the request runs,
\* every yielded status update sets the stored state and appends its message
\* at the end of the history, and no other step touches the history.
C15_SendReturnsFinalTask ==
  /\ [](\A t \in DOMAIN req :
          (req[t].method = "send" /\ req[t].pc = "running") =>
            /\ ~(resp.method = "message/send" /\ resp.ok /\ resp.result.id = t)
            /\ tasks[t].messages[1] = RequestMessage(t, tasks[t].messages[1].contextId))
  /\ [][\A t \in DOMAIN req :
          (req[t].method = "send" /\ req[t].pc = "running") =>
            \/ \E event \in HandlerEvents(t, req[t].n + 1) :
                 /\ HandlerYields(t, event)
                 /\ req'[t].pc = "running"
                 /\ tasks'[t].state = IF event.type = "task_status_update"
                                      THEN event.state ELSE tasks[t].state
                 /\ tasks'[t].messages =
                      IF event.message = NoMessage THEN tasks[t].messages
                      ELSE tasks[t].messages \o <<event.message>>
            \/ /\ HandlerReturns(t)
               /\ req'[t].pc = "done"
               /\ tasks'[t] = tasks[t]
               /\ resp'.ok /\ resp'.method = "message/send"
               /\ resp'.result.kind = "task" /\ resp'.result.id = t
               /\ resp'.result.state = tasks[t].state
               /\ resp'.result.history = tasks[t].messages
            \/ /\ PromiseResolves(t)
               /\ req'[t].pc = "done"
               /\ resp'.ok /\ resp'.method = "message/send"
               /\ resp'.result.id = t
               /\ resp'.result.state = "completed"
               /\ resp'.result.history = tasks[t].messages \o <<AgentMessage(t, 1)>>
            \/ HandlerThrows(t)
            \/ /\ req'[t] = req[t]
               /\ tasks'[t].messages = tasks[t].messages
               /\ \/ tasks'[t].state = tasks[t].state
                  \/ tasks'[t].state = "cancelled" /\ handleCancelTask(t)]_vars

\* C15 witness: the answer of message/send for an echo handler that yielded
\* completed with its reply: state completed, a history of length 2 with the
\* agent's reply second.
C15_Witness ==
  /\ resp.ok /\ resp.method = "message/send"
  /\ handlerKind = "generator"
  /\ resp.result.state = "completed"
  /\ Len(resp.result.history) = 2
  /\ resp.result.history[1] = RequestMessage(resp.result.id, <<"ctx", 1>>)
  /\ resp.result.history[2] = AgentMessage(resp.result.id, 1)
  /\ req[resp.result.id].n = 1 /\ req[resp.result.id].pc = "done"

\* C16: with a promise-returning handler, message/send and message/stream
\* both move the task submitted -> working -> completed: the task is working
\* while the promise is pending, it never goes from submitted directly to
\* completed, and the returned message is appended on the completed step.
C16_PromiseThroughWorking ==
  [][\A t \in DOMAIN req :
       PromiseResolves(t) =>
         /\ tasks[t].state # "submitted"
         /\ tasks'[t].state = "completed"
         /\ tasks'[t].messages = tasks[t].messages \o <<AgentMessage(t, 1)>>]_vars

\* C17: tasks/get, tasks/cancel and tasks/resubscribe naming a task id that
\* was never created each answer a JSON-RPC error with code -32001, create no
\* task, register no subscriber and leave the store unchanged.
C17_UnknownTaskRejected ==
  [][\A taskId \in TaskIds :
       ( /\ taskId \notin DOMAIN tasks
         /\ \/ handleGetTask(taskId)
            \/ handleCancelTask(taskId)
            \/ handleSubscribeToTask(taskId) )
       => /\ ~resp'.ok
          /\ resp'.code = -32001
          /\ resp'.method \in {"tasks/get", "tasks/cancel", "tasks/resubscribe"}
          /\ resp'.result = NoResult
          /\ tasks' = tasks
          /\ taskCounter' = taskCounter
          /\ subs' = subs
          /\ req' = req]_vars

\* C17 witness: tasks/resubscribe for task-2 was answered -32001 while task-1
\* exists with its request running; no subscriber was registered.
C17_Witness ==
  /\ ~resp.ok /\ resp.code = -32001 /\ resp.method = "tasks/resubscribe"
  /\ DOMAIN tasks = {1}
  /\ req[1].pc = "running"
  /\ subs = <<>>

CreatesTaskIn(ctx) ==
  SendMessage(MaxStored, ctx) \/ SendStreamingMessage(MaxStored, ctx)

\* C19: every task produced by task creation has state submitted, a non-empty
\* contextId (the inbound message's when it carries one, otherwise a freshly
\* generated identifier that no client context and no other task has) and a
\* history consisting of exactly the triggering message; task creation never
\* fails, whatever the store holds.  (message/stream with a promise handler
\* stores working in the same synchronous run, after it has written the
\* submitted frame of the created task.)
C19_CreatedTask ==
  /\ [][\A ctx \in ClientContexts :
          CreatesTaskIn(ctx) =>
            LET n == taskCounter + 1
            IN /\ DOMAIN tasks' = (DOMAIN tasks) \cup {n}
               /\ n \notin DOMAIN tasks
               /\ \/ tasks'[n].state = "submitted"
                  \/ /\ handlerKind = "promise" /\ req'[n].method = "stream"
                     /\ ReportsState(req'[n].frames[1], "submitted")
                     /\ tasks'[n].state = "working"
               /\ tasks'[n].contextId # None
               /\ ctx # None => tasks'[n].contextId = ctx
               /\ ctx = None =>
                    /\ tasks'[n].contextId \notin ClientContexts
                    /\ \A t \in DOMAIN tasks :
                         tasks[t].contextId # tasks'[n].contextId
               /\ tasks'[n].messages = <<RequestMessage(n, ctx)>>]_vars
  /\ [](taskCounter < MaxStored =>
          \A ctx \in ClientContexts : ENABLED CreatesTaskIn(ctx))

\* C19 witness: three tasks just created, two in generated contexts that
\* differ and one in the client's context, each submitted with the triggering
\* message as its whole history.
C19_Witness ==
  /\ DOMAIN tasks = 1..3
  /\ tasks[1].contextId = randomUUID(1)
  /\ tasks[2].contextId = <<"ctx", 1>>
  /\ tasks[3].contextId = randomUUID(3)
  /\ \A t \in 1..3 :
       /\ tasks[t].state = "submitted"
       /\ tasks[t].messages = <<RequestMessage(t, tasks[t].messages[1].contextId)>>
  /\ req[1].method = "send" /\ req[2].method = "stream"

\* C20: task ids are unique within one store and assigned monotonically: the
\* n-th task created gets id task-n, whatever the interleaving of message/send
\* and message/stream requests and of their handlers; no two tasks share an
\* id and the id of a stored task never changes or is given again.
C20_TaskIds ==
  /\ [](/\ DOMAIN tasks = 1..taskCounter
        /\ Cardinality(DOMAIN tasks) = taskCounter
        /\ \A t \in DOMAIN tasks :
             /\ tasks[t].id = t
             /\ tasks[t].messages[1].task = t)
  /\ [][/\ \A t \in DOMAIN tasks :
             t \in DOMAIN tasks' /\ tasks'[t].id = tasks[t].id
        /\ \A ctx \in ClientContexts :
             CreatesTaskIn(ctx) =>
               /\ DOMAIN tasks' = (DOMAIN tasks) \cup {Cardinality(DOMAIN tasks) + 1}
               /\ tasks'[Cardinality(DOMAIN tasks) + 1].id
                    = Cardinality(DOMAIN tasks) + 1
               /\ \A t \in DOMAIN tasks :
                    tasks[t].id # Cardinality(DOMAIN tasks) + 1]_vars

\* C20 witness: a message/stream request created task-2 between two
\* message/send requests that created task-1 and task-3; task-1's handler has
\* yielded and finished while task-3's is still running.
C20_Witness ==
  /\ DOMAIN tasks = 1..3
  /\ req[1].method = "send" /\ req[2].method = "stream" /\ req[3].method = "send"
  /\ req[1].pc = "done" /\ req[1].n = 1
  /\ req[2].frames[1].task_id = 2
  /\ req[3].pc = "running" /\ req[3].n = 0
  /\ \A t \in 1..3 : tasks[t].id = t

\* ---- C21
AgentCardPath(path) ==
  path \in {<<"/", ".well-known/agent-card", ".json">>,
            <<"/", ".well-known/agent-card">>}

LangGraphPath(path) ==
  \/ path \in {<<"/", "info">>, <<"/", "ok">>}
  \/ /\ Len(path) >= 2
     /\ path[1] = "/"
     /\ path[2] \in {"assistants", "threads", "runs", "store"}

\* C21: the dual router passes every request to exactly one destination, the
\* one of the first rule that matches: an agent-card path goes to the A2A
\* adapter, POST / goes to the A2A adapter, /info, /ok and every path that
\* starts with /assistants, /threads, /runs or /store go to the LangGraph
\* adapter, any other OPTIONS request gets the CORS preflight response, and
\* everything else gets 404; POST / never reaches the LangGraph adapter
C21_RouterFirstMatch ==
  (call.fn = "handleRequest" /\ call.output # <<>>) =>
    LET m == call.input.method
        p == call.input.path
        a2a == AgentCardPath(p) \/ (p = <<"/">> /\ m = "POST")
    IN  /\ Len(call.output) = 1
        /\ a2a => call.output[1] = "a2a"
        /\ (~a2a /\ LangGraphPath(p)) => call.output[1] = "langgraph"
        /\ (~a2a /\ ~LangGraphPath(p) /\ m = "OPTIONS")
             => call.output[1] = "cors"
        /\ (~a2a /\ ~LangGraphPath(p) /\ m # "OPTIONS")
             => call.output[1] = "404"
        /\ (p = <<"/">> /\ m = "POST") => call.output[1] # "langgraph"

\* an OPTIONS request for a thread's runs has been passed to the LangGraph
\* adapter, not answered by the router's own preflight rule
C21_Witness ==
  /\ call.fn = "handleRequest"
  /\ call.input.method = "OPTIONS"
  /\ call.input.path = <<"/", "threads", "/", "x">>
  /\ call.output = <<"langgraph">>

\* ---- C22
\* C22: the two adapters read and write one task store: a task that
\* message/send created with contextId c is what GET /threads/c/state shows
\* (status 200, the task's request message among values.messages), and a run
\* made on thread c is listed by tasks/list with contextId c
C22_SharedTaskStore ==
  [][/\ \A c \in ClientThreads :
          (/\ handleGetThreadState(c)
           /\ \E t \in DOMAIN tasks : tasks[t].contextId = c)
          => /\ http'.status = 200
             /\ \A t \in DOMAIN tasks :
                  tasks[t].contextId = c =>
                    \E i \in DOMAIN http'.messages :
                      http'.messages[i]
                        = a2aToLangGraphMessage(tasks[t].messages[1])
     /\ \A c \in ClientThreads :
          (/\ handleListTasks(c, [given |-> FALSE, states |-> {}], 0)
           /\ \E r \in DOMAIN lg : lg[r].thread = c)
          => resp'.result.tasks # <<>>]_vars

\* ---- C23
\* the input object with one key set to the string "hi"
OnlyKey(key) ==
  [messages |-> Absent,
   message |-> IF key = "message" THEN String("hi") ELSE Absent,
   content |-> IF key = "content" THEN String("hi") ELSE Absent,
   text |-> IF key = "text" THEN String("hi") ELSE Absent]

OnlyMessages(a) ==
  [messages |-> Array(a), message |-> Absent, content |-> Absent,
   text |-> Absent]

HumanHi == [t |-> "object", type |-> "human", content |-> String("hi")]

\* C23: the conversion of a run input is total and does not depend on the
\* shape: no input object is rejected; {content:"hi"}, {message:"hi"},
\* {text:"hi"} and {messages:[{type:"human",content:"hi"}]} give the same
\* message (role user, one text part "hi"); of a messages array the last
\* message is the one converted; an object of no known shape gives a user
\* message whose text is the stringified input
C23_InputNormalization ==
  (call.fn = "inputToA2AMessage" /\ call.output # <<>>) =>
    LET input == call.input
        out == call.output[1]
        msgs == input.messages.a
        known == \/ input.messages.t = "array" /\ msgs # <<>>
                 \/ input.message.t = "string"
                 \/ input.content.t = "string"
                 \/ input.text.t = "string"
    IN  /\ ~out.threw
        /\ (input \in {OnlyKey("content"), OnlyKey("message"), OnlyKey("text"),
                       OnlyMessages(<<HumanHi>>)})
             => out = TextMessage("user", Text(<<"hi">>))
        /\ (input.messages.t = "array" /\ msgs # <<>>
              /\ msgs[Len(msgs)].content.t = "string")
             => out.parts = <<[type |-> "text",
                               text |-> Text(<<msgs[Len(msgs)].content.s>>)]>>
        /\ ~known => out = TextMessage("user", stringify(input))

\* ---- C24
\* C24: a run made with POST /threads/:id/runs/wait on an existing thread is
\* answered only when the handler's generator is exhausted; the
\* values.messages it returns are the thread's previous messages, then the
\* input message, then one message for every update that carried a message,
\* in the order of the yields and typed ai; GET /threads/:id/state right after
\* returns the same list
C24_WaitReturnsHistory ==
  /\ [](\A r \in DOMAIN lg :
          lg[r].kind = "wait" => (lg[r].open <=> lg[r].pc = "running"))
  /\ [][/\ \A id \in ClientThreads :
             (RunWait(MaxRuns, id) /\ id \in DOMAIN threadStates) =>
               LET r == Len(lg')
               IN /\ lg'[r].object = threadStates[id]
                  /\ heap'[lg'[r].object]
                       = Append(heap[threadStates[id]],
                                [type |-> "human", content |-> <<r, 0>>])
                  /\ http' = NoHttp
        /\ \A r \in DOMAIN lg :
             lg[r].kind = "wait" =>
               LET object == lg[r].object
               IN /\ \A k \in 1..MaxYields : \A update \in RunUpdates(r, k) :
                       RunYields(r, update) =>
                         /\ heap'[object]
                              = IF update.message = NoMessage THEN heap[object]
                                ELSE Append(heap[object],
                                            [type |-> "ai",
                                             content |-> <<r, k>>])
                         /\ http' = NoHttp
                  /\ RunReturns(r) =>
                       LET msgs == http'.messages
                           input == CHOOSE i \in DOMAIN msgs :
                                      msgs[i].content = <<r, 0>>
                       IN /\ http' = sendJson(200, None, heap[object], "none")
                          /\ lg[r].thread \in DOMAIN threadStates'
                          /\ heap'[threadStates'[lg[r].thread]] = msgs
                          /\ \E i \in DOMAIN msgs : msgs[i].content = <<r, 0>>
                          /\ (\A j \in (input + 1)..Len(msgs) :
                                msgs[j].content[1] = r)
                             => \A j \in (input + 1)..Len(msgs) :
                                  /\ msgs[j].type = "ai"
                                  /\ j < Len(msgs) =>
                                       msgs[j].content[2]
                                         < msgs[j + 1].content[2]]_vars

\* the second run on a thread, made when the first was over, has returned the
\* first run's two messages, its input and the message of its handler
C24_Witness ==
  \E r \in DOMAIN lg :
    /\ lg[r].kind = "wait"
    /\ \A q \in DOMAIN lg : lg[q].pc = "done"
    /\ lg[r].hasState
    /\ lg[r].thread \in ClientThreads
    /\ http.status = 200
    /\ Len(http.messages) = 4
    /\ http.messages[2].content[1] # r
    /\ http.messages[3] = [type |-> "human", content |-> <<r, 0>>]
    /\ http.messages[4] = [type |-> "ai", content |-> <<r, 1>>]

\* ---- C25
Events(frames) == [i \in DOMAIN frames |-> frames[i].event]

\* C25: the frames of a streaming run come in a fixed order: one metadata
\* frame, first and never again; then for every update, in the order of the
\* yields, a messages frame with the update's message immediately followed by
\* a values frame with the whole list of messages accumulated so far when the
\* update carries a message, and in every case an updates frame after them
C25_StreamFrameOrder ==
  /\ [](\A r \in DOMAIN lg :
          lg[r].kind = "stream" =>
            /\ Len(lg[r].frames) >= 1
            /\ lg[r].frames[1].event = "metadata"
            /\ lg[r].frames[1].thread = lg[r].thread
            /\ \A i \in 2..Len(lg[r].frames) :
                 lg[r].frames[i].event # "metadata")
  /\ [][\A r \in DOMAIN lg :
          lg[r].kind = "stream" =>
            \A k \in 1..MaxYields : \A update \in RunUpdates(r, k) :
              RunYields(r, update) =>
                LET old == lg[r].frames
                    new == SubSeq(lg'[r].frames, Len(old) + 1,
                                  Len(lg'[r].frames))
                    ai == [type |-> "ai", content |-> <<r, k>>]
                IN /\ SubSeq(lg'[r].frames, 1, Len(old)) = old
                   /\ IF update.message = NoMessage
                      THEN Events(new) = <<"updates">>
                      ELSE /\ Events(new) = <<"messages", "values", "updates">>
                           /\ new[1].messages = <<ai>>
                           /\ new[2].messages = heap'[lg[r].object]
                           /\ Last(new[2].messages) = ai]_vars

\* a streaming run on a thread that held a message has written metadata, then
\* messages, values with the three messages and updates for its first update,
\* then updates alone for its second, which carried no message
C25_Witness ==
  \E r \in DOMAIN lg :
    /\ lg[r].kind = "stream"
    /\ Events(lg[r].frames)
         = <<"metadata", "messages", "values", "updates", "updates">>
    /\ Len(lg[r].frames[3].messages) = 3

\* ---- C26
EndFrames(frames) == {i \in DOMAIN frames : frames[i].event \in {"end", "error"}}

\* C26: a streaming run that has opened its event stream ends it: while the
\* handler runs the response is open and holds no end or error frame; when the
\* generator is exhausted the last frame is end, with no data, and when the
\* handler throws the last frame is error with the exception's message; a run
\* writes exactly one of the two, nothing after it, and the response is closed
C26_StreamEnds ==
  /\ [](\A r \in DOMAIN lg :
          lg[r].kind = "stream" =>
            LET frames == lg[r].frames
            IN IF lg[r].pc = "running"
               THEN lg[r].open /\ EndFrames(frames) = {}
               ELSE /\ ~lg[r].open
                    /\ EndFrames(frames) = {Len(frames)}
                    /\ IF lg[r].error = NoError
                       THEN Last(frames) = [event |-> "end", thread |-> None,
                                            messages |-> <<>>, message |-> ""]
                       ELSE /\ Last(frames).event = "error"
                            /\ lg[r].error.isError =>
                                 Last(frames).message = lg[r].error.message)
  /\ [][\A r \in DOMAIN lg :
          (lg[r].kind = "stream" /\ lg[r].pc = "done") =>
            lg'[r] = lg[r]]_vars

\* a streaming run whose handler threw an Error after a first update: the
\* stream holds that update's frames, then the error frame, and is closed
C26_Witness ==
  \E r \in DOMAIN lg :
    /\ lg[r].kind = "stream"
    /\ ~lg[r].open
    /\ Events(lg[r].frames)
         = <<"metadata", "messages", "values", "updates", "error">>
    /\ Last(lg[r].frames).message = "handler failed"

\* ---- C27
\* a part of the internal form: discriminated by type, with no kind key
InternalPart(part) == "type" \in DOMAIN part /\ "kind" \notin DOMAIN part

\* C27: a part of the internal form that is converted to the wire form and
\* back is equal to the original, with the server's partToKind and
\* normalizePart as with the client's messageToWireFormat and
\* normalizeMessage; on the wire the part has kind and no type
C27_PartsRoundTrip ==
  (call.fn \in {"server", "client"} /\ Len(call.output) >= 1) =>
    \A i \in DOMAIN call.input.parts :
      InternalPart(call.input.parts[i]) =>
        /\ "kind" \in DOMAIN call.output[1].parts[i]
        /\ "type" \notin DOMAIN call.output[1].parts[i]
        /\ call.output[1].parts[i].kind = call.input.parts[i].type
        /\ Len(call.output) = 2 =>
             call.output[2].parts[i] = call.input.parts[i]

\* the client has sent and read back a message of a file part with metadata
\* and a text part
C27_Witness ==
  /\ call.fn = "client"
  /\ Len(call.output) = 2
  /\ Len(call.input.parts) = 2
  /\ InternalPart(call.input.parts[1])
  /\ call.input.parts[1].type = "file"
  /\ "metadata" \in DOMAIN call.input.parts[1]
  /\ call.input.parts[2].type = "text"
  /\ InternalPart(call.input.parts[2])
  /\ call.output[1].parts[1].kind = "file"
  /\ call.output[2].parts = call.input.parts

\* ---- C28
\* C28: a POST / of a bad shape never reaches the store or the handler: a
\* body that is no JSON is answered with error -32700, an unknown method with
\* -32601, and message/send or message/stream without the message parameter
\* with a JSON-RPC error as well; none of them creates a task, changes a
\* task, calls the handler or writes to a subscriber
C28_BadShapeRejected ==
  [][\A body \in BadRequests :
       handleJsonRpc(body) =>
         /\ ~resp'.ok
         /\ resp'.code < 0
         /\ body = "invalid json" => resp'.code = -32700
         /\ body = "a2a.UnknownMethod" => resp'.code = -32601
         /\ tasks' = tasks
         /\ taskCounter' = taskCounter
         /\ req' = req
         /\ subs' = subs]_vars

\* message/send without a message has been answered with an error while the
\* handler of task-1 is running and a client follows the task
C28_Witness ==
  /\ resp = createJsonRpcError("message/send", INTERNAL_ERROR, "TypeError")
  /\ DOMAIN tasks = {1}
  /\ req[1].pc = "running"
  /\ tasks[1].state = "working"
  /\ Len(subs) = 1

\* ---- C29
\* C29 as stated: message/stream against a handler that yields working and
\* then completed writes exactly two frames, the first with final = false and
\* the second with final = true
C29_StreamTwoFrames ==
  \A t \in DOMAIN req :
    (req[t].method = "stream" /\ req[t].pc = "done") =>
      /\ Len(req[t].frames) = 2
      /\ ~req[t].frames[1].final
      /\ req[t].frames[2].final

\* C29 amended: message/stream against a handler that yields working and then
\* completed writes exactly three frames: submitted, written before the
\* handler is called, and working, both with final = false, then completed
\* with final = true; while the handler runs the stream holds the first of
\* them
C29_StreamThreeFrames ==
  \A t \in DOMAIN req :
    req[t].method = "stream" =>
      LET frames == req[t].frames
          states == <<"submitted", "working", "completed">>
      IN /\ Len(frames) = 1 + req[t].n
         /\ req[t].pc = "done" => Len(frames) = 3
         /\ \A i \in DOMAIN frames :
              /\ frames[i].kind = "status-update"
              /\ frames[i].state = states[i]
              /\ frames[i].final = (i = 3)
              /\ frames[i].task_id = t

\* the stream of task-1 is over and holds the three frames, the last of them
\* with the echo
C29_Witness ==
  /\ 1 \in DOMAIN req
  /\ req[1].method = "stream"
  /\ req[1].pc = "done"
  /\ Len(req[1].frames) = 3
  /\ req[1].frames[3].final
  /\ req[1].frames[3].message = AgentMessage(1, 2)

C31_YieldTransitionsChecked ==
  [][\A t \in DOMAIN req : \A event \in StatusEvents(t, req[t].n + 1) :
       HandlerYields(t, event) =>
         IF canTransitionTask(tasks[t].state, event.state)
         THEN tasks'[t].state = event.state
         ELSE /\ tasks'[t] = tasks[t]
              /\ IF req[t].method = "send"
                 THEN ~resp'.ok /\ resp'.code = INVALID_PARAMS
                 ELSE ~ReportsState(Last(req'[t].frames), event.state)]_vars

\* ---- C32
\* C32: no subscriber callback is registered for a task whose stored state is
\* terminal, whichever step made it terminal.
C32_NoSubscriberOfTerminalTask ==
  \A s \in DOMAIN subs :
    subs[s].registered => tasks[subs[s].task].state \notin TERMINAL_TASK_STATES

\* ---- C33
\* the stream of subscriber s was closed by its client: it is closed and its
\* last frame does not report a terminal state
Disconnected(s) ==
  /\ ~subs[s].open
  /\ Last(subs[s].frames).state \notin TERMINAL_TASK_STATES

\* C33: a client disconnect on a tasks/resubscribe stream removes that
\* stream's subscriber and changes nothing else: the stored tasks (state and
\* history), the other subscribers and the requests are as before; nothing is
\* written on the stream afterwards; and the handler of the task goes on: as
\* long as its request is running it can still yield its result or return.
C33_DisconnectOnlyUnsubscribes ==
  /\ [][\A s \in DOMAIN subs :
          ClientDisconnect(s) =>
            /\ ~subs'[s].registered
            /\ subs'[s].frames = subs[s].frames
            /\ DOMAIN subs' = DOMAIN subs
            /\ \A o \in DOMAIN subs \ {s} : subs'[o] = subs[o]
            /\ tasks' = tasks
            /\ req' = req
            /\ taskCounter' = taskCounter]_vars
  /\ [][\A s \in DOMAIN subs :
          ~subs[s].registered => subs'[s].frames = subs[s].frames]_vars
  /\ [](\A s \in DOMAIN subs :
          (Disconnected(s) /\ req[subs[s].task].pc = "running") =>
            ENABLED (HandlerReturns(subs[s].task)
                       \/ PromiseResolves(subs[s].task)))

\* C33 witness: a subscriber that had seen its task submitted and working
\* disconnected; the generator handler then yielded completed with a message
\* and returned, and the stream still ends with the working frame.
C33_Witness ==
  \E s \in DOMAIN subs :
    /\ Disconnected(s)
    /\ Len(subs[s].frames) = 2
    /\ ReportsState(subs[s].frames[2], "working")
    /\ handlerKind = "generator"
    /\ req[subs[s].task].pc = "done"
    /\ tasks[subs[s].task].state = "completed"
    /\ Len(tasks[subs[s].task].messages) = 2

\* ---- C34
\* C34: a task's message history is append-only and starts with the
\* triggering inbound message: the request that creates the task stores the
\* history holding that message alone, every step leaves each stored task's
\* earlier history as a prefix of its new one, and the first element is the
\* user's message of that request in every reachable state.
C34_HistoryAppendOnly ==
  /\ [](\A t \in DOMAIN tasks :
          /\ Len(tasks[t].messages) >= 1
          /\ tasks[t].messages[1]
               = RequestMessage(t, tasks[t].messages[1].contextId))
  /\ [][/\ \A t \in DOMAIN tasks :
             /\ t \in DOMAIN tasks'
             /\ Len(tasks'[t].messages) >= Len(tasks[t].messages)
             /\ SubSeq(tasks'[t].messages, 1, Len(tasks[t].messages))
                  = tasks[t].messages
        /\ \A ctx \in ClientContexts :
             (handleSendMessage(ctx) \/ handleSendStreamingMessage(ctx)) =>
               tasks'[taskCounter'].messages
                 = <<RequestMessage(taskCounter', ctx)>>]_vars

\* C34 witness: a task whose handler yielded two updates with a message each
\* and that was cancelled afterwards: three messages, the user's first.
C34_Witness ==
  \E t \in DOMAIN tasks :
    /\ tasks[t].state = "cancelled"
    /\ resp.ok /\ resp.method = "tasks/cancel"
    /\ tasks[t].messages
         = <<RequestMessage(t, <<"ctx", 1>>), AgentMessage(t, 1),
             AgentMessage(t, 2)>>

\* ---- C35
\* C35: the context a TaskHandler is called with wraps the task created in
\* the store for its request: context.task.id is the id of the stored task
\* and context.message is the triggering message, the first of its history.
C35_ContextWrapsStoredTask ==
  \A t \in DOMAIN req :
    handlerKind = "generator" =>
      /\ req[t].context.task.id = TaskIdText(tasks[t].id)
      /\ req[t].context.message = tasks[t].messages[1]

\* ---- C36
\* the step notifies `event` of task t: a handler yield or tasks/cancel
Notifies(t, event) ==
  \/ HandlerYields(t, [event EXCEPT !.taskId = "pending"])
  \/ event.state = "cancelled" /\ event.message = NoMessage
       /\ handleCancelTask(t)

\* the events a step may notify for task t
NotifiedEvents(t) ==
  UNION {[type : {e.type}, taskId : {t}, state : {e.state},
          message : {e.message}] :
           e \in DualEvents(t, req[t].n + 1) \cup ArtifactEvents(t, req[t].n + 1)
                   \cup {[type |-> "task_status_update", taskId |-> t,
                          state |-> "cancelled", message |-> NoMessage]}}

\* C36: unsubscribing is idempotent and safe during notification: when the
\* response of a stream whose callback has already removed itself is closed,
\* the second call of the disposer changes no subscriber's registration and
\* no stream; and when an event of a task is notified, every subscriber
\* registered for the task gets exactly one frame for it at the end of its
\* stream, also when the subscribers before it removed themselves inside
\* their callbacks (on a terminal state, where each of them is removed)
\* while subscribers of no other task get one.
C36_UnsubscribeSafe ==
  /\ [][\A s \in DOMAIN subs :
          (ResClose(s) /\ ~subs[s].registered) =>
            subs' = [subs EXCEPT ![s].closed = TRUE]]_vars
  /\ [][\A t \in DOMAIN req : \A event \in NotifiedEvents(t) :
          Notifies(t, event) =>
            \A s \in DOMAIN subs :
              IF subs[s].registered /\ subs[s].task = t
              THEN /\ Len(subs'[s].frames) = Len(subs[s].frames) + 1
                   /\ SubSeq(subs'[s].frames, 1, Len(subs[s].frames))
                        = subs[s].frames
                   /\ Last(subs'[s].frames).task_id = t
                   /\ Last(subs'[s].frames).state = event.state
                   /\ Last(subs'[s].frames).message = event.message
                   /\ subs'[s].registered
                        = ~terminalStatesIncludes(event.state)
              ELSE subs'[s] = subs[s]]_vars

\* C36 witness: three subscribers of one task each got the working frame and
\* the completed frame, on which each removed itself during the notification;
\* the responses of the first two were closed afterwards, which called their
\* disposers a second time.
C36_Witness ==
  /\ Len(subs) = 3
  /\ \A s \in DOMAIN subs :
       /\ subs[s].task = 1
       /\ Len(subs[s].frames) = 3
       /\ ReportsState(subs[s].frames[2], "working")
       /\ ReportsState(subs[s].frames[3], "completed")
       /\ ~subs[s].registered
  /\ subs[1].closed /\ subs[2].closed /\ ~subs[3].closed

\* ---- C37
\* C37: with several message/stream requests in flight, every frame on a
\* request's stream carries the id of the task created for that request, and
\* a handler's yield is applied to the request's own task only: it sets that
\* task's state, and the stored task and the stream of every other request
\* are as before; so are the subscribers of the other tasks.
C37_StreamsIsolated ==
  /\ [](\A t \in DOMAIN req :
          /\ tasks[t].id = t
          /\ \A i \in 1..Len(req[t].frames) : req[t].frames[i].task_id = t)
  /\ [][\A t \in DOMAIN req : \A event \in HandlerEvents(t, req[t].n + 1) :
          HandlerYields(t, event) =>
            /\ event.type = "task_status_update" =>
                 tasks'[t].state = event.state
            /\ Len(req'[t].frames) = Len(req[t].frames) + 1
            /\ \A u \in DOMAIN req \ {t} :
                 tasks'[u] = tasks[u] /\ req'[u] = req[u]
            /\ \A s \in DOMAIN subs :
                 subs[s].task # t => subs'[s] = subs[s]]_vars

\* C37 witness: two streams are being drained at once: the second request
\* was received at time 0 and its handler has yielded completed, and the
\* handler of the first yielded working at time 1; each stream holds its
\* submitted frame and the frame of its own update.
C37_Witness ==
  /\ handlerKind = "generator"
  /\ DOMAIN req = {1, 2}
  /\ req[1].pc = "running" /\ req[2].pc = "running"
  /\ tasks[2].createdAt = 0
  /\ tasks[1].updatedAt = 1
  /\ tasks[1].state = "working" /\ tasks[2].state = "completed"
  /\ Len(req[1].frames) = 2 /\ Len(req[2].frames) = 2
  /\ ReportsState(req[1].frames[2], "working")
  /\ ReportsState(req[2].frames[2], "completed")

\* ---- C38
\* the messages of run r in a messages array: its input and what it produced
OfRun(messages, r) == SelectSeq(messages, LAMBDA m : m.content[1] = r)

\* C38: two runs on the same existing thread lose no message: once both have
\* finished, the thread's values.messages holds, for each of the two runs,
\* its input message followed by every agent message the run produced, in
\* the order the run yielded them; and every message a run's handler yields
\* is added, last, to what the run has produced.
C38_NoMessageLost ==
  /\ [](\A r1 \in DOMAIN lg : \A r2 \in DOMAIN lg \ {r1} :
          ( /\ lg[r1].pc = "done" /\ lg[r2].pc = "done"
            /\ lg[r1].thread = lg[r2].thread
            /\ lg[r1].hasState /\ lg[r2].hasState ) =>
            /\ lg[r1].thread \in DOMAIN threadStates
            /\ \A r \in {r1, r2} :
                 LET inThread == OfRun(heap[threadStates[lg[r].thread]], r)
                 IN /\ inThread = OfRun(heap[lg[r].object], r)
                    /\ Len(inThread) >= 1
                    /\ inThread[1]
                         = a2aToLangGraphMessage(InputMessage(r, lg[r].thread))
                    /\ \A i \in 2..Len(inThread) :
                         /\ inThread[i].type = "ai"
                         /\ inThread[i].content[2] > inThread[i - 1].content[2])
  /\ [][\A r \in DOMAIN lg : \A update \in TaskYieldUpdates(r, lg[r].n + 1) :
          (RunYields(r, update) /\ update.message # NoMessage) =>
            OfRun(heap'[lg[r].object], r)
              = Append(OfRun(heap[lg[r].object], r),
                       a2aToLangGraphMessage(update.message))]_vars

\* C38 witness: two wait runs on one thread ran at the same time; both inputs
\* were recorded before either handler yielded, the second run's handler
\* yielded a message before the first run's, and the run that finished
\* last returned the thread's four messages.
C38_Witness ==
  /\ Len(lg) = 2
  /\ lg[1].kind = "wait" /\ lg[2].kind = "wait"
  /\ lg[1].pc = "done" /\ lg[2].pc = "done"
  /\ lg[1].thread = <<"ctx", 1>> /\ lg[2].thread = <<"ctx", 1>>
  /\ lg[1].hasState /\ lg[2].hasState
  /\ http.status = 200
  /\ http.messages = heap[threadStates[<<"ctx", 1>>]]
  /\ heap[threadStates[<<"ctx", 1>>]]
       = <<a2aToLangGraphMessage(InputMessage(1, <<"ctx", 1>>)),
           a2aToLangGraphMessage(InputMessage(2, <<"ctx", 1>>)),
           a2aToLangGraphMessage(AgentMessage(2, 1)),
           a2aToLangGraphMessage(AgentMessage(1, 1))>>

\* ---- C39
RunStatusSteps ==
  {<<"pending", "running">>, <<"running", "success">>, <<"running", "error">>}

\* C39: the status of a background run of POST /threads/:id/runs only moves
\* forward along pending -> running -> (success | error): a stored run is
\* never removed and each change of its status is one of these steps, so it
\* never leaves success or error; it becomes success when the handler's
\* sequence is exhausted and error when the handler throws, and a run whose
\* handler terminates eventually has one of the two.
C39_RunStatusForward ==
  /\ [](\A runId \in DOMAIN runs :
          runs[runId].status \in {"pending", "running", "success", "error"})
  /\ [][/\ \A runId \in DOMAIN runs :
             /\ runId \in DOMAIN runs'
             /\ runs'[runId].status # runs[runId].status =>
                  <<runs[runId].status, runs'[runId].status>> \in RunStatusSteps
        /\ \A runId \in DOMAIN runs' \ DOMAIN runs :
             /\ runs'[runId] = executeRun(NewLangGraphRun(runs'[runId].thread_id))
             /\ <<NewLangGraphRun(runs'[runId].thread_id).status,
                  runs'[runId].status>> \in RunStatusSteps
        /\ \A r \in DOMAIN lg :
             lg[r].kind = "background" =>
               /\ RunReturns(r) =>
                    /\ runs[lg[r].run].status = "running"
                    /\ runs'[lg[r].run].status = "success"
               /\ RunThrows(r) =>
                    /\ runs[lg[r].run].status = "running"
                    /\ runs'[lg[r].run].status = "error"]_vars
  /\ \A runId \in 1..MaxRuns :
       (runId \in DOMAIN runs) ~>
         (runId \in DOMAIN runs /\ runs[runId].status \in {"success", "error"})

\* C39 witness: two background runs on one thread; the handler of the first
\* threw after one update and the run is in error, the handler of the second
\* returned after one update and the run is a success, as GET of the run says.
C39_Witness ==
  /\ Len(runs) = 2
  /\ runs[1].status = "error" /\ runs[2].status = "success"
  /\ \A r \in DOMAIN lg : lg[r].kind = "background" /\ lg[r].n = 1
  /\ http.status = 200 /\ http.run = "success"

\* ---- C40
\* C40: POST /threads with the thread_id of an existing thread does not
\* destroy the thread: with if_exists = raise it answers 409, and with raise
\* as with do_nothing (or no if_exists) the stored thread and its message
\* history are as before.
C40_ExistingThreadKept ==
  [][\A thread_id \in ClientThreads : \A if_exists \in {"raise", "do_nothing"} :
       ( /\ thread_id \in DOMAIN threads
         /\ handleCreateThread(thread_id, if_exists) ) =>
         /\ if_exists = "raise" => http'.status = 409
         /\ thread_id \in DOMAIN threads'
         /\ threads'[thread_id] = threads[thread_id]
         /\ thread_id \in DOMAIN threadStates'
         /\ heap'[threadStates'[thread_id]]
              = heap[threadStates[thread_id]]]_vars

====
